---------------------------- MODULE Spec2Model ----------------------------
(***************************************************************************)
(* A model of the LLM annotation core of pytest-llm-report:                *)
(*   - annotate_tests, the annotation orchestrator (llm/annotator.py),     *)
(*     with the annotation cache it reads and writes;                      *)
(*   - GeminiProvider.annotate with its per-model rate limiters, model     *)
(*     rotation and the 429 retry loop of _call_gemini (llm/gemini.py).    *)
(*   - OllamaProvider.annotate and LiteLLMProvider.annotate with their     *)
(*     response parsers (llm/ollama.py, llm/litellm_provider.py).          *)
(* Spec          is the orchestrator over several runs sharing one cache.  *)
(* SpecPacing    is the same with calls that take time, for its pacing.    *)
(* SpecGemini    is one GeminiProvider instance serving annotate calls.    *)
(* SpecLimiter   is one _GeminiRateLimiter driven on its own.              *)
(* SpecProviders is one OllamaProvider or LiteLLMProvider instance.        *)
(* SpecModels    is GeminiProvider's model list and per-model limits.      *)
(***************************************************************************)
EXTENDS Integers, Sequences, FiniteSets, TLC

\* Python's None where an LlmAnnotation is expected: no test has nodeid 0
\* and nothing is made before time 0.
None == [of |-> <<0, <<>>>>, error |-> FALSE, made |-> -1]

\* Python's None where a number of seconds or a time is expected.
NoTime == -1

Max(a, b) == IF a >= b THEN a ELSE b
Min(a, b) == IF a <= b THEN a ELSE b

(***************************************************************************)
(* Bounds of the orchestrator model.                                       *)
(***************************************************************************)
NumTests == 3       \* tests handed to annotate_tests, in input order
SrcLen == 1         \* characters of one assembled test source
MaxRuns == 2        \* runs of annotate_tests sharing the cache directory

Tests == 1..NumTests            \* a test's nodeid is its input position
Chars == {1, 2}                 \* the alphabet of source texts
Texts == [1..SrcLen -> Chars]

\* Config.llm_cache_ttl_seconds (seconds)
llm_cache_ttl_seconds == 86400

\* The wall-clock time between the end of one run and the start of the
\* next: a minute, or just past the TTL.
RunGaps == {60, llm_cache_ttl_seconds + 1}

\* Config.provider: "none" disables LLM annotation, any other valid name
\* selects a provider.
Providers == {"none", "litellm"}

\* Config.llm_requests_per_minute: at least 1, 5 by default.  Both values
\* divide 60, so that 60.0 / requests_per_minute is a whole number of seconds.
RequestRates == {2, 5}

\* Seconds a provider.annotate call can take.
CallSeconds == {0, 20}

VARIABLES
    provider,        \* config.provider
    available,       \* provider.is_available()
    call_seconds,    \* the numbers of seconds the provider's calls can take
    llm_max_tests,   \* config.llm_max_tests
    llm_requests_per_minute,    \* config.llm_requests_per_minute
    opt_out,         \* test.llm_opt_out, per test
    source,          \* the source text assembler.assemble returns, per test
    llm_annotation,  \* test.llm_annotation, per test
    cache,           \* the entries of the cache directory
    wall,            \* time.time() and time.monotonic(), in seconds
    run,             \* number of annotate_tests runs started
    edited,          \* whether a source was edited since the last run
    pc,              \* "idle" (no run in progress), "loop" and "done" (annotate_tests)
    limited,         \* the local limited_tests
    index,           \* how many tests of limited_tests the loop has handled
    failures,        \* the local failures: live annotations with error set
    last_request_time,  \* the local last_request_time (NoTime for None)
    calls,           \* this run's provider.annotate calls (nodeids, in order)
    starts,          \* the times these calls were made at, in order
    cacheReads,      \* nodeids passed to cache.get in this run
    cacheWrites,     \* nodeids passed to cache.set in this run
    cacheAtStart,    \* the cache as the current run found it
    prevRun          \* per test, what the previous run saw and attached

ocfg == <<provider, available, call_seconds, llm_max_tests, llm_requests_per_minute,
          opt_out>>
ohist == <<calls, starts, cacheReads, cacheWrites, cacheAtStart, prevRun>>
ovars == <<ocfg, source, llm_annotation, cache, wall, run, edited, pc, limited,
           index, failures, last_request_time, ohist>>

\* The state of one GeminiProvider instance and of its annotate call.
VARIABLES
    genv,               \* the environment of the provider
    retry_after,        \* the Retry-After header of the server's 429 responses
    rate_limits,        \* self._rate_limits, per model
    rate_limiters,      \* self._rate_limiters, per model
    model_exhausted_at, \* self._model_exhausted_at, per model (NoTime: no entry)
    cooldowns,          \* self._cooldowns, per model (0: no entry)
    clock,              \* time.monotonic() and time.time(), in seconds
    gpc,                \* "idle", "select" (top of the while loop), "post" (in _call_gemini)
    gcalls,             \* provider.annotate calls started
    estimated_tokens,   \* annotate's local estimated_tokens
    attempts,           \* annotate's local attempts
    daily_limit_hit,    \* annotate's local daily_limit_hit
    model,              \* annotate's local model (0 before a selection)
    attempt,            \* _call_gemini's loop variable attempt
    last_delay,         \* _call_gemini's local last_delay
    result,             \* the error of the annotation last returned ("" for none)
    h_cycle,            \* the last selection cycle: candidates found, time it began
                        \* at, models it found recovered
    h_provider_calls,   \* _call_gemini invocations of the current annotate call
    h_http,             \* HTTP requests sent by the current annotate call
    h_tries,            \* HTTP requests sent by the last _call_gemini invocation
    h_all429,           \* whether each of them was answered 429
    h_outcome,          \* how the last _call_gemini invocation ended
    h_sent,             \* per model, the times its HTTP requests were sent at
    h_usage             \* totalTokenCount of the response to the current annotate
                        \* call (0: it reports none; NoTime: no response)

gstate == <<rate_limits, rate_limiters, model_exhausted_at, cooldowns>>
glocals == <<estimated_tokens, attempts, daily_limit_hit, model, attempt, last_delay>>
ghist == <<h_cycle, h_provider_calls, h_http, h_tries, h_all429, h_outcome, h_sent,
           h_usage>>
gvars == <<genv, retry_after, gstate, clock, gpc, gcalls, glocals, result, ghist>>

\* One _GeminiRateLimiter driven on its own.
VARIABLES
    l_limits,       \* self._limits
    l_state,        \* self._request_times, self._token_usage, self._daily_requests
    l_now,          \* time.monotonic() and time.time(), in seconds
    l_ops,          \* operations applied to the limiter
    l_op,           \* the last operation applied
    l_tokens,       \* request_tokens of the last next_available_in call
    l_result,       \* what that call returned, and the two waits it compared
    l_requests,     \* the times of all record_request calls
    l_had           \* the windows as that call found them, before _prune

lvars == <<l_limits, l_state, l_now, l_ops, l_op, l_tokens, l_result, l_requests, l_had>>

\* One OllamaProvider or LiteLLMProvider instance and its annotate call.
VARIABLES
    p_provider,     \* the provider's class: "ollama" or "litellm"
    p_installed,    \* whether the provider's package (httpx, litellm) imports
    p_pc,           \* "idle", "call" (inside provider.annotate)
    p_calls,        \* provider.annotate calls started
    p_now,          \* time, in seconds
    p_attempt,      \* OllamaProvider.annotate's loop variable attempt
    last_error,     \* OllamaProvider.annotate's local last_error ("" for None)
    p_annotation,   \* the annotation the last annotate call returned
    p_outcome,      \* how the last request ended: the exception raised or the
                    \* response text received
    p_requests,     \* requests sent by the current annotate call
    p_sleeps,       \* the sleeps of the current annotate call, in order
    p_all_raised,   \* whether every request of the current call raised
    p_rejected,     \* responses of the current call that failed to parse or
                    \* to validate
    p_sent_after_rejection  \* requests the current call sent after such a response

plocals == <<p_attempt, last_error>>
phist == <<p_outcome, p_requests, p_sleeps, p_all_raised, p_rejected,
           p_sent_after_rejection>>
pvars == <<p_provider, p_installed, p_pc, p_calls, p_now, plocals, p_annotation,
           phist>>

\* One GeminiProvider instance seen through _ensure_models_and_limits.
VARIABLES
    config_model,       \* self.config.model
    m_models,           \* self._models
    models_fetched_at,  \* self._models_fetched_at
    m_rate_limits,      \* self._rate_limits, a dict keyed by model name
    m_now,              \* time.time(), in seconds
    m_calls,            \* _ensure_models_and_limits calls made
    h_fetches,          \* the times _fetch_available_models was called at
    h_discovered,       \* what its last call returned
    h_reports           \* per model, the outcome of its _fetch_rate_limits call

mhist == <<h_fetches, h_discovered, h_reports>>
mvars == <<config_model, m_models, models_fetched_at, m_rate_limits, m_now,
           m_calls, mhist>>

(***************************************************************************)
(* Pure helpers.                                                           *)
(***************************************************************************)

\* Python's seq[:n]
PySliceTo(seq, n) ==
    IF n >= 0 THEN SubSeq(seq, 1, Min(n, Len(seq)))
    ELSE SubSeq(seq, 1, Max(0, Len(seq) + n))

SeqToSet(seq) == {seq[i] : i \in 1..Len(seq)}

\* hash_source: a collision-free digest of the exact source text.  The
\* text's characters are folded into one number, digit by digit, in a base
\* larger than every character, so that texts of the same or of different
\* lengths get different digests.
HashBase == Cardinality(Chars) + 1

RECURSIVE HashFold(_, _)
HashFold(text, n) ==
    IF n = 0 THEN 0 ELSE HashFold(text, n - 1) * HashBase + text[n]

hash_source(text) == HashFold(text, Len(text))

\* LlmCache: entries are records keyed by (nodeid, source hash), each with
\* the annotation and the time it was stored.
CacheKeyMatches(e, nodeid, hash) ==
    e.nodeid = nodeid /\ e.source_hash = hash

\* LlmCache.get: the entry's annotation, or None when there is no entry or
\* the entry is older than the TTL.
cache_get(c, now, nodeid, hash) ==
    LET live == {e \in c : /\ CacheKeyMatches(e, nodeid, hash)
                           /\ now - e.timestamp <= llm_cache_ttl_seconds}
    IN  IF live = {} THEN None ELSE (CHOOSE e \in live : TRUE).annotation

\* LlmCache.set: store the annotation under the key, replacing any entry.
cache_set(c, now, nodeid, hash, annotation) ==
    {e \in c : ~CacheKeyMatches(e, nodeid, hash)}
        \cup {[nodeid |-> nodeid, source_hash |-> hash,
               annotation |-> annotation, timestamp |-> now]}

\* An LlmAnnotation instance.  "of" is what the provider was shown (the
\* nodeid and the source text of the prompt), "error" whether its error
\* field is set, "made" the time the provider produced it: two instances
\* made in different runs differ.
Annotation(nodeid, text, failed, now) ==
    [of |-> <<nodeid, text>>, error |-> failed, made |-> now]

(***************************************************************************)
(* annotate_tests (llm/annotator.py)                                       *)
(***************************************************************************)

\* config.is_llm_enabled()
is_llm_enabled == provider # "none"

\* eligible_tests = [test for test in tests if not test.llm_opt_out]
eligible_tests_all == [t \in Tests |-> t]
eligible_tests == SelectSeq([t \in Tests |-> t], LAMBDA t : ~opt_out[t])

\* limited_tests = eligible_tests[: config.llm_max_tests]
limited_tests_one_more == PySliceTo(eligible_tests, llm_max_tests + 1)
limited_tests == PySliceTo(eligible_tests, llm_max_tests)

\* source_hash = hash_source(test_source), of the source assembled for t
source_hash_of_nodeid(t) == hash_source(<<t>>)
source_hash(t) == hash_source(source[t])

\* cached = cache.get(test.nodeid, source_hash)
cached_for_swapped(t) == cache_get(cache, wall, source_hash(t), t)
cached_for(t) == cache_get(cache, wall, t, source_hash(t))

\* requests_per_minute: the providers modelled supply no rate limits of
\* their own (LlmProvider.get_rate_limits returns None), so it is the
\* configured value.
requests_per_minute == llm_requests_per_minute

\* request_interval = 60.0 / requests_per_minute
request_interval == 60 \div requests_per_minute

\* The sleep before a provider call made at time now: what is left of
\* request_interval since the last call, nothing before the first call.
pacing_sleep_none(now) == 0
pacing_sleep(now) ==
    IF last_request_time # NoTime /\ now - last_request_time < request_interval
    THEN request_interval - (now - last_request_time)
    ELSE 0

\* for index, test in enumerate(limited_tests, start=1): the test of the
\* iteration the loop is at.
current_test_backwards == limited[Len(limited) - index]
current_test == limited[index + 1]

\* The number of tests handled once the test at position i + 1 was given
\* the annotation a: the loop goes on to the next test whatever a holds.
next_index_stop_on_error(i, a) == IF a.error THEN Len(limited) ELSE i + 1
next_index(i, a) == i + 1

\* A new process starts a run: the collector builds fresh test objects
\* (llm_annotation unset), time has passed since the last run.  The run
\* returns at once when LLM annotation is disabled or the provider is not
\* available; otherwise it filters and caps the tests and enters the loop.
StartRun(gap) ==
    /\ pc = "idle"
    /\ run < MaxRuns
    /\ run' = run + 1
    /\ wall' = IF run = 0 THEN wall ELSE wall + gap
    /\ llm_annotation' = [t \in Tests |-> None]
    /\ calls' = <<>>
    /\ starts' = <<>>
    /\ last_request_time' = NoTime
    /\ cacheReads' = {}
    /\ cacheWrites' = {}
    /\ cacheAtStart' = cache
    /\ index' = 0
    /\ failures' = 0
    /\ edited' = FALSE
    /\ IF is_llm_enabled /\ available
       THEN /\ limited' = limited_tests
            /\ pc' = "loop"
       ELSE /\ limited' = <<>>
            /\ pc' = "done"
    /\ UNCHANGED <<ocfg, source, cache, prevRun>>
    /\ UNCHANGED <<gvars, lvars, pvars, mvars>>

\* One iteration of the loop whose cache lookup hits.
AnnotateCached ==
    /\ pc = "loop"
    /\ index < Len(limited)
    /\ LET t == current_test
           cached == cached_for(t)
       IN  /\ cached # None
           /\ llm_annotation' = [llm_annotation EXCEPT ![t] = cached]
           /\ cacheReads' = cacheReads \cup {t}
           /\ index' = next_index(index, cached)
    /\ UNCHANGED <<ocfg, source, cache, wall, run, edited, pc, limited, failures,
                   last_request_time, calls, starts, cacheWrites, cacheAtStart,
                   prevRun>>
    /\ UNCHANGED <<gvars, lvars, pvars, mvars>>

\* One iteration of the loop whose cache lookup misses: the loop sleeps
\* what is left of request_interval since the last call, notes the time
\* and calls the provider, which answers after some seconds with an
\* annotation whose error is set or not; the annotation is attached and
\* stored.
AnnotateLive(failed, seconds) ==
    /\ pc = "loop"
    /\ index < Len(limited)
    /\ seconds \in call_seconds
    /\ LET t == current_test
           called == wall + pacing_sleep(wall)
           returned == called + seconds
           annotation == Annotation(t, source[t], failed, returned)
       IN  /\ cached_for(t) = None
           /\ last_request_time' = called
           /\ wall' = returned
           /\ calls' = Append(calls, t)
           /\ starts' = Append(starts, called)
           /\ llm_annotation' = [llm_annotation EXCEPT ![t] = annotation]
           /\ cache' = cache_set(cache, returned, t, source_hash(t), annotation)
           /\ cacheReads' = cacheReads \cup {t}
           /\ cacheWrites' = cacheWrites \cup {t}
           /\ failures' = IF annotation.error THEN failures + 1 ELSE failures
           /\ index' = next_index(index, annotation)
    /\ UNCHANGED <<ocfg, source, run, edited, pc, limited, cacheAtStart,
                   prevRun>>
    /\ UNCHANGED <<gvars, lvars, pvars, mvars>>

\* The loop is exhausted: annotate_tests prints its summary and returns.
FinishRun ==
    /\ pc = "loop"
    /\ index >= Len(limited)
    /\ pc' = "done"
    /\ UNCHANGED <<ocfg, source, llm_annotation, cache, wall, run, edited,
                   limited, index, failures, last_request_time, ohist>>
    /\ UNCHANGED <<gvars, lvars, pvars, mvars>>

\* The pytest process ends; the report keeps what the run attached.
EndProcess ==
    /\ pc = "done"
    /\ pc' = "idle"
    /\ prevRun' = [t \in Tests |->
                     [source |-> source[t], annotation |-> llm_annotation[t]]]
    /\ UNCHANGED <<ocfg, source, llm_annotation, cache, wall, run, edited,
                   limited, index, failures, last_request_time, calls, starts,
                   cacheReads, cacheWrites, cacheAtStart>>
    /\ UNCHANGED <<gvars, lvars, pvars, mvars>>

\* Between two runs a developer changes one character of one test's source.
EditSource(t, p, c) ==
    /\ pc = "idle"
    /\ run >= 1
    /\ run < MaxRuns
    /\ ~edited
    /\ source[t][p] # c
    /\ source' = [source EXCEPT ![t] = [@ EXCEPT ![p] = c]]
    /\ edited' = TRUE
    /\ UNCHANGED <<ocfg, llm_annotation, cache, wall, run, pc, limited, index,
                   failures, last_request_time, ohist>>
    /\ UNCHANGED <<gvars, lvars, pvars, mvars>>

\* The first two tests are one parametrized test (identical source), the
\* others have a source of their own.
InitSource == [t \in Tests |-> [p \in 1..SrcLen |-> IF t <= 2 THEN 1 ELSE 2]]

\* The tests and the configuration handed to the first run, with the
\* default request rate and a provider that answers at once.
OInit ==
    /\ provider \in Providers
    /\ available \in BOOLEAN
    /\ call_seconds = {0}
    /\ llm_max_tests \in 0..NumTests
    /\ llm_requests_per_minute = 5
    /\ opt_out \in [Tests -> BOOLEAN]
    /\ source = InitSource
    /\ llm_annotation = [t \in Tests |-> None]
    /\ cache = {}
    /\ wall = 0
    /\ run = 0
    /\ edited = FALSE
    /\ pc = "idle"
    /\ limited = <<>>
    /\ index = 0
    /\ failures = 0
    /\ last_request_time = NoTime
    /\ calls = <<>>
    /\ starts = <<>>
    /\ cacheReads = {}
    /\ cacheWrites = {}
    /\ cacheAtStart = {}
    /\ prevRun = [t \in Tests |-> [source |-> source[t], annotation |-> None]]

\* The same with a provider that is available, whose calls take more or
\* less time, under one request rate or another, every test being within
\* the cap.
PacedInit ==
    /\ provider = "litellm"
    /\ available = TRUE
    /\ call_seconds = CallSeconds
    /\ llm_max_tests = NumTests
    /\ llm_requests_per_minute \in RequestRates
    /\ opt_out \in [Tests -> BOOLEAN]
    /\ source = InitSource
    /\ llm_annotation = [t \in Tests |-> None]
    /\ cache = {}
    /\ wall = 0
    /\ run = 0
    /\ edited = FALSE
    /\ pc = "idle"
    /\ limited = <<>>
    /\ index = 0
    /\ failures = 0
    /\ last_request_time = NoTime
    /\ calls = <<>>
    /\ starts = <<>>
    /\ cacheReads = {}
    /\ cacheWrites = {}
    /\ cacheAtStart = {}
    /\ prevRun = [t \in Tests |-> [source |-> source[t], annotation |-> None]]

ONext ==
    \/ \E gap \in RunGaps : StartRun(gap)
    \/ AnnotateCached
    \/ \E failed \in BOOLEAN, seconds \in CallSeconds : AnnotateLive(failed, seconds)
    \/ FinishRun
    \/ EndProcess
    \/ \E t \in Tests, p \in 1..SrcLen, c \in Chars : EditSource(t, p, c)

(***************************************************************************)
(* GeminiProvider (llm/gemini.py)                                          *)
(***************************************************************************)
NumModels == 2      \* models in the provider's ordered model list
MaxCalls == 2       \* provider.annotate calls the orchestrator's loop makes

Models == 1..NumModels          \* self._models, a model is its list position

max_retries == 3                \* _call_gemini: max_retries = 3
base_backoff == 1               \* _call_gemini: base_backoff = 1.0
MinuteWindow == 60              \* _prune: cutoff_minute = now - 60.0
DayWindow == 86400              \* _prune: cutoff_day = time.time() - 86400.0
DAILY_LIMIT_WINDOW == 86400     \* _DAILY_LIMIT_WINDOW = 24 * 3600
DefaultCooldown == 60           \* annotate: exc.retry_after or 60.0

\* A model's _GeminiRateLimitConfig; 0 stands for a limit that is not set
\* (the limiter treats None and 0 alike).
LimitChoices ==
    { [requests_per_minute |-> 2, tokens_per_minute |-> 4, requests_per_day |-> 0],
      [requests_per_minute |-> 1, tokens_per_minute |-> 0, requests_per_day |-> 1] }

\* _estimate_tokens(prompt) of the prompts annotated
EstimatedTokens == {1, 3}

\* usageMetadata.totalTokenCount of a response; 0 when it reports none
TokensUsed == {0, 2}

\* The Retry-After header the server puts on its 429 responses: absent, not
\* a number, or seconds
HeaderAbsent == -1
HeaderNotANumber == -2
RetryAfterHeaders == {HeaderAbsent, HeaderNotANumber, 0, 7}

\* The text of a 200 response: JSON of the right shape, no JSON at all, JSON
\* whose key_assertions is not a list
ResponseBodies == {"valid", "not_json", "assertions_not_list"}

\* Seconds between the return of one provider.annotate call and the next
\* call of the orchestrator's loop (pacing sleep, cache lookups)
CallGaps == {0, 60, 86400}

\* Config.llm_max_retries, at its default
llm_max_retries == 10

\* Whether annotate can run: httpx importable and GEMINI_API_TOKEN set.
Environments == {"ok", "no_httpx", "no_token"}

\* _GeminiRateLimiter.__init__
EmptyLimiter == [request_times |-> <<>>, token_usage |-> <<>>, daily_requests |-> <<>>]

\* while dq and dq[0] < cutoff: dq.popleft()
RECURSIVE PopOld(_, _)
PopOld(dq, cutoff) ==
    IF dq # <<>> /\ dq[1] < cutoff THEN PopOld(Tail(dq), cutoff) ELSE dq

\* while self._token_usage and self._token_usage[0][0] < cutoff_minute: popleft()
RECURSIVE PopOldUsage(_, _)
PopOldUsage(dq, cutoff) ==
    IF dq # <<>> /\ dq[1][1] < cutoff THEN PopOldUsage(Tail(dq), cutoff) ELSE dq

\* _GeminiRateLimiter._prune
prune_minute_only(l, now) ==
    [request_times |-> PopOld(l.request_times, now - MinuteWindow),
     token_usage |-> PopOldUsage(l.token_usage, now - MinuteWindow),
     daily_requests |-> l.daily_requests]
prune(l, now) ==
    [request_times |-> PopOld(l.request_times, now - MinuteWindow),
     token_usage |-> PopOldUsage(l.token_usage, now - MinuteWindow),
     daily_requests |-> PopOld(l.daily_requests, now - DayWindow)]

\* _GeminiRateLimiter._seconds_until_rpm_available
seconds_until_rpm_available_at_limit(l, limits, now) ==
    IF limits.requests_per_minute = 0 THEN 0
    ELSE IF Len(l.request_times) <= limits.requests_per_minute THEN 0
    ELSE Max(0, l.request_times[1] + MinuteWindow - now)
seconds_until_rpm_available(l, limits, now) ==
    IF limits.requests_per_minute = 0 THEN 0
    ELSE IF Len(l.request_times) < limits.requests_per_minute THEN 0
    ELSE Max(0, l.request_times[1] + MinuteWindow - now)

\* sum(tokens for _, tokens in self._token_usage)
RECURSIVE SumTokens(_)
SumTokens(usage) ==
    IF usage = <<>> THEN 0 ELSE usage[1][2] + SumTokens(Tail(usage))

\* The for loop of _seconds_until_tpm_available and what follows it.
RECURSIVE TpmScan(_, _, _, _, _, _)
TpmScan(usage, i, remaining, request_tokens, limit, now) ==
    IF i > Len(usage)
    THEN IF usage # <<>> THEN Max(0, usage[1][1] + MinuteWindow - now) ELSE 0
    ELSE LET left == remaining - usage[i][2]
         IN  IF left + request_tokens <= limit
             THEN Max(0, usage[i][1] + MinuteWindow - now)
             ELSE TpmScan(usage, i + 1, left, request_tokens, limit, now)

\* _GeminiRateLimiter._seconds_until_tpm_available
seconds_until_tpm_available_oldest_only(l, limits, now, request_tokens) ==
    LET limit == limits.tokens_per_minute
    IN  IF limit = 0 THEN 0
        ELSE IF request_tokens <= 0 THEN 0
        ELSE IF request_tokens >= limit /\ l.token_usage = <<>> THEN 0
        ELSE IF SumTokens(l.token_usage) + request_tokens <= limit THEN 0
        ELSE Max(0, l.token_usage[1][1] + MinuteWindow - now)
seconds_until_tpm_available(l, limits, now, request_tokens) ==
    LET limit == limits.tokens_per_minute
    IN  IF limit = 0 THEN 0
        ELSE IF request_tokens <= 0 THEN 0
        ELSE IF request_tokens >= limit /\ l.token_usage = <<>> THEN 0
        ELSE IF SumTokens(l.token_usage) + request_tokens <= limit THEN 0
        ELSE TpmScan(l.token_usage, 1, SumTokens(l.token_usage), request_tokens,
                     limit, now)

\* _GeminiRateLimiter.next_available_in, its result (NoTime for None); the
\* limiter it leaves behind is prune(l, now).
next_available_in_above_limit(l, limits, now, request_tokens) ==
    LET p == prune(l, now)
    IN  IF /\ limits.requests_per_day # 0
           /\ Len(p.daily_requests) > limits.requests_per_day
        THEN NoTime
        ELSE Max(seconds_until_rpm_available(p, limits, now),
                 seconds_until_tpm_available(p, limits, now, request_tokens))
next_available_in(l, limits, now, request_tokens) ==
    LET p == prune(l, now)
    IN  IF /\ limits.requests_per_day # 0
           /\ Len(p.daily_requests) >= limits.requests_per_day
        THEN NoTime
        ELSE Max(seconds_until_rpm_available(p, limits, now),
                 seconds_until_tpm_available(p, limits, now, request_tokens))

\* _GeminiRateLimiter.record_request
record_request_twice(l, now) ==
    prune([l EXCEPT !.request_times = Append(Append(@, now), now),
                    !.daily_requests = Append(Append(@, now), now)], now)
record_request(l, now) ==
    prune([l EXCEPT !.request_times = Append(@, now),
                    !.daily_requests = Append(@, now)], now)

\* _GeminiRateLimiter.record_tokens
record_tokens_dropped(l, now, tokens_used) == l
record_tokens(l, now, tokens_used) ==
    IF tokens_used <= 0 THEN l
    ELSE prune([l EXCEPT !.token_usage = Append(@, <<now, tokens_used>>)], now)

\* max_attempts = max(1, len(models) * 2)
max_attempts_triple == Max(1, NumModels * 3)
max_attempts == Max(1, NumModels * 2)

\* attempts += 1
attempts_not_counted(a) == a
next_attempts(a) == a + 1

\* if attempt >= max_retries: raise _GeminiRateLimitExceeded(...)
retry_ceiling_one_early(a) == a + 1 >= max_retries
retry_ceiling_reached(a) == a >= max_retries

\* The model loop of one selection cycle, for model m at time now.
\* The model was marked exhausted and 24 hours have passed since.
Recovered(m, now) ==
    /\ model_exhausted_at[m] # NoTime
    /\ now - model_exhausted_at[m] >= DAILY_LIMIT_WINDOW

\* The model is marked exhausted and is skipped.
StillExhausted_never(m, now) == FALSE
StillExhausted(m, now) ==
    /\ model_exhausted_at[m] # NoTime
    /\ ~Recovered(m, now)

\* The model's limiter after the cycle looked at the model: reset on
\* recovery, pruned by next_available_in, untouched when skipped.
LimiterInCycle_kept_on_recovery(m, now) ==
    IF StillExhausted(m, now) THEN rate_limiters[m] ELSE prune(rate_limiters[m], now)
LimiterInCycle(m, now) ==
    IF StillExhausted(m, now) THEN rate_limiters[m]
    ELSE prune(IF Recovered(m, now) THEN EmptyLimiter ELSE rate_limiters[m], now)

\* wait_for = limiter.next_available_in(estimated_tokens)
WaitInCycle(m, now) ==
    next_available_in(LimiterInCycle(m, now), rate_limits[m], now, estimated_tokens)

\* The model's limiter returned None: it is marked exhausted in this cycle.
ExhaustedInCycle(m, now) ==
    ~StillExhausted(m, now) /\ WaitInCycle(m, now) = NoTime

\* The models appended to candidates, and the wait each is appended with.
Candidates(now) ==
    {m \in Models : ~StillExhausted(m, now) /\ WaitInCycle(m, now) # NoTime}

\* cooldown_wait = max(0.0, cooldown_until - now); the wait appended is
\* max(wait_for, cooldown_wait).
CandidateWait_quota_only(m, now) == WaitInCycle(m, now)
CandidateWait(m, now) ==
    Max(WaitInCycle(m, now), Max(0, cooldowns[m] - now))

\* min(candidates, key=lambda item: item[0]): the first of the least waits
SelectedModel_first_listed(now) == CHOOSE m \in Models : \A o \in Models : m <= o
SelectedModel_last_of_least(now) ==
    CHOOSE m \in Candidates(now) :
        \A o \in Candidates(now) :
            \/ CandidateWait(m, now) < CandidateWait(o, now)
            \/ CandidateWait(m, now) = CandidateWait(o, now) /\ m >= o
SelectedModel(now) ==
    CHOOSE m \in Candidates(now) :
        \A o \in Candidates(now) :
            \/ CandidateWait(m, now) < CandidateWait(o, now)
            \/ CandidateWait(m, now) = CandidateWait(o, now) /\ m <= o

\* The annotation returned after the while loop.
AfterLoopError(hit) ==
    IF hit THEN "Gemini requests-per-day limit reached; skipping annotation"
    ELSE "Gemini rate limits reached for all available models"

\* _parse_response: the error of the annotation it returns
parse_response(body) ==
    CASE body = "valid" -> ""
      [] body = "not_json" -> "Failed to parse LLM response as JSON"
      [] body = "assertions_not_list" -> "Invalid response: key_assertions must be a list"

\* 2 ** attempt
RECURSIVE Pow2(_)
Pow2(n) == IF n = 0 THEN 1 ELSE 2 * Pow2(n - 1)

\* The delay _call_gemini sleeps after a 429 answered at this attempt.
retry_delay_backoff_only(header, a) == base_backoff * Pow2(a)
retry_delay(header, a) ==
    IF header \in {HeaderAbsent, HeaderNotANumber} THEN base_backoff * Pow2(a)
    ELSE header

\* The orchestrator's loop calls provider.annotate for its next test;
\* annotate returns at once when httpx or the API token is missing, and
\* enters its while loop otherwise.
GAnnotate(gap, tokens) ==
    /\ gpc = "idle"
    /\ gcalls < MaxCalls
    /\ gcalls' = gcalls + 1
    /\ clock' = IF gcalls = 0 THEN clock ELSE clock + gap
    /\ h_cycle' = [candidates |-> -1, at |-> 0, recovered |-> {}]
    /\ h_provider_calls' = 0
    /\ h_http' = 0
    /\ h_tries' = 0
    /\ h_all429' = TRUE
    /\ h_outcome' = "none"
    /\ attempts' = 0
    /\ daily_limit_hit' = FALSE
    /\ model' = 0
    /\ attempt' = 0
    /\ last_delay' = NoTime
    /\ estimated_tokens' = tokens
    /\ h_usage' = NoTime
    /\ CASE genv = "no_httpx" ->
              /\ result' = "httpx not installed. Install with: pip install httpx"
              /\ gpc' = "idle"
         [] genv = "no_token" ->
              /\ result' = "GEMINI_API_TOKEN is not set"
              /\ gpc' = "idle"
         [] OTHER ->
              /\ result' = "pending"
              /\ gpc' = "select"
    /\ UNCHANGED <<genv, retry_after, gstate, h_sent, ovars, lvars, pvars, mvars>>

\* One selection cycle: the model loop, then either the break (no
\* candidates) and the return after the loop, or the sleep for the selected
\* model's wait, record_request and the entry into _call_gemini.
GCycle ==
    /\ gpc = "select"
    /\ attempts < max_attempts
    /\ attempts' = next_attempts(attempts)
    /\ model_exhausted_at' =
          [m \in Models |->
              IF StillExhausted(m, clock) THEN model_exhausted_at[m]
              ELSE IF WaitInCycle(m, clock) = NoTime THEN clock ELSE NoTime]
    /\ daily_limit_hit' =
          (daily_limit_hit \/ \E m \in Models : ExhaustedInCycle(m, clock))
    /\ IF Candidates(clock) = {}
       THEN /\ rate_limiters' = [m \in Models |-> LimiterInCycle(m, clock)]
            /\ result' = AfterLoopError(daily_limit_hit')
            /\ gpc' = "idle"
            /\ UNCHANGED <<clock, model, attempt, last_delay, h_provider_calls>>
       ELSE \E selected \in {SelectedModel(clock)} :
            \E wait_for \in {CandidateWait(selected, clock)} :
                /\ clock' = clock + wait_for
                /\ rate_limiters' =
                      [m \in Models |->
                          IF m = selected
                          THEN record_request(LimiterInCycle(m, clock), clock + wait_for)
                          ELSE LimiterInCycle(m, clock)]
                /\ model' = selected
                /\ attempt' = 0
                /\ last_delay' = NoTime
                /\ h_provider_calls' = h_provider_calls + 1
                /\ gpc' = "post"
                /\ UNCHANGED result
    /\ h_cycle' = [candidates |-> Cardinality(Candidates(clock)), at |-> clock,
                   recovered |-> {m \in Models : Recovered(m, clock)}]
    /\ h_tries' = 0
    /\ h_all429' = TRUE
    /\ h_outcome' = "none"
    /\ UNCHANGED <<genv, retry_after, rate_limits, cooldowns, gcalls,
                   estimated_tokens, h_http, h_sent, h_usage, ovars, lvars, pvars, mvars>>

\* The while condition fails: annotate returns the error after the loop.
GGiveUp ==
    /\ gpc = "select"
    /\ attempts >= max_attempts
    /\ result' = AfterLoopError(daily_limit_hit)
    /\ gpc' = "idle"
    /\ UNCHANGED <<genv, retry_after, gstate, clock, gcalls, glocals, ghist, ovars, lvars, pvars, mvars>>

\* httpx.post is answered with a success status: the token usage is
\* recorded, the text is parsed and annotate returns the annotation.
GPostOk(tokens_used, body) ==
    /\ gpc = "post"
    /\ rate_limiters' = [rate_limiters EXCEPT
                            ![model] = record_tokens(@, clock, tokens_used)]
    /\ result' = parse_response(body)
    /\ gpc' = "idle"
    /\ h_http' = h_http + 1
    /\ h_tries' = h_tries + 1
    /\ h_all429' = FALSE
    /\ h_outcome' = "response"
    /\ h_usage' = tokens_used
    /\ h_sent' = [h_sent EXCEPT ![model] = Append(@, clock)]
    /\ UNCHANGED <<genv, retry_after, rate_limits, model_exhausted_at, cooldowns,
                   clock, gcalls, glocals, h_cycle, h_provider_calls, ovars, lvars, pvars, mvars>>

\* httpx.post raises (network, timeout) or raise_for_status does (a status
\* other than 429): annotate returns the annotation with that error.
GPostError ==
    /\ gpc = "post"
    /\ result' = "http error"
    /\ gpc' = "idle"
    /\ h_http' = h_http + 1
    /\ h_tries' = h_tries + 1
    /\ h_all429' = FALSE
    /\ h_outcome' = "error"
    /\ h_sent' = [h_sent EXCEPT ![model] = Append(@, clock)]
    /\ UNCHANGED <<genv, retry_after, gstate, clock, gcalls, glocals, h_cycle,
                   h_provider_calls, h_usage, ovars, lvars, pvars, mvars>>

\* httpx.post is answered 429: at the ceiling _call_gemini raises
\* _GeminiRateLimitExceeded("requests_per_minute", last_delay), annotate
\* sets the model's cooldown and continues with the next cycle; below the
\* ceiling _call_gemini sleeps the delay and tries again.
GPost429 ==
    /\ gpc = "post"
    /\ h_http' = h_http + 1
    /\ h_tries' = h_tries + 1
    /\ h_sent' = [h_sent EXCEPT ![model] = Append(@, clock)]
    /\ IF retry_ceiling_reached(attempt)
       THEN /\ cooldowns' = [cooldowns EXCEPT
                                ![model] = clock + (IF last_delay = NoTime \/ last_delay = 0
                                                    THEN DefaultCooldown
                                                    ELSE last_delay)]
            /\ h_outcome' = "rate_limit_exceeded"
            /\ gpc' = "select"
            /\ UNCHANGED <<clock, attempt, last_delay>>
       ELSE /\ last_delay' = retry_delay(retry_after, attempt)
            /\ clock' = clock + retry_delay(retry_after, attempt)
            /\ attempt' = attempt + 1
            /\ UNCHANGED <<cooldowns, h_outcome, gpc>>
    /\ UNCHANGED <<genv, retry_after, rate_limits, rate_limiters,
                   model_exhausted_at, gcalls, estimated_tokens, attempts,
                   daily_limit_hit, model, result, h_cycle, h_provider_calls,
                   h_all429, h_usage, ovars, lvars, pvars, mvars>>

\* A provider that serves no call: the state of the Gemini variables under
\* Spec, where the orchestrator's provider is any provider.
GQuiet ==
    /\ genv = "ok"
    /\ retry_after = HeaderAbsent
    /\ rate_limits = [m \in Models |->
                        [requests_per_minute |-> 0, tokens_per_minute |-> 0,
                         requests_per_day |-> 0]]
    /\ rate_limiters = [m \in Models |-> EmptyLimiter]
    /\ model_exhausted_at = [m \in Models |-> NoTime]
    /\ cooldowns = [m \in Models |-> 0]
    /\ clock = 0
    /\ gpc = "idle"
    /\ gcalls = 0
    /\ estimated_tokens = 0
    /\ attempts = 0
    /\ daily_limit_hit = FALSE
    /\ model = 0
    /\ attempt = 0
    /\ last_delay = NoTime
    /\ result = ""
    /\ h_cycle = [candidates |-> -1, at |-> 0, recovered |-> {}]
    /\ h_provider_calls = 0
    /\ h_http = 0
    /\ h_tries = 0
    /\ h_all429 = TRUE
    /\ h_outcome = "none"
    /\ h_sent = [m \in Models |-> <<>>]
    /\ h_usage = NoTime

\* A freshly constructed GeminiProvider whose model list and limits are
\* known, in an environment and under a configuration of the sets above.
GInit ==
    /\ genv \in Environments
    /\ retry_after \in RetryAfterHeaders
    /\ rate_limits \in [Models -> LimitChoices]
    /\ rate_limiters = [m \in Models |-> EmptyLimiter]
    /\ model_exhausted_at = [m \in Models |-> NoTime]
    /\ cooldowns = [m \in Models |-> 0]
    /\ clock = 0
    /\ gpc = "idle"
    /\ gcalls = 0
    /\ estimated_tokens = 0
    /\ attempts = 0
    /\ daily_limit_hit = FALSE
    /\ model = 0
    /\ attempt = 0
    /\ last_delay = NoTime
    /\ result = ""
    /\ h_cycle = [candidates |-> -1, at |-> 0, recovered |-> {}]
    /\ h_provider_calls = 0
    /\ h_http = 0
    /\ h_tries = 0
    /\ h_all429 = TRUE
    /\ h_outcome = "none"
    /\ h_sent = [m \in Models |-> <<>>]
    /\ h_usage = NoTime

\* The orchestrator's variables under SpecGemini, where the orchestrator is
\* the loop that calls provider.annotate (GAnnotate).
OQuiet ==
    /\ provider = "gemini"
    /\ available = TRUE
    /\ call_seconds = {0}
    /\ llm_max_tests = 0
    /\ llm_requests_per_minute = 5
    /\ opt_out = [t \in Tests |-> FALSE]
    /\ source = InitSource
    /\ llm_annotation = [t \in Tests |-> None]
    /\ cache = {}
    /\ wall = 0
    /\ run = 0
    /\ edited = FALSE
    /\ pc = "provider"
    /\ limited = <<>>
    /\ index = 0
    /\ failures = 0
    /\ last_request_time = NoTime
    /\ calls = <<>>
    /\ starts = <<>>
    /\ cacheReads = {}
    /\ cacheWrites = {}
    /\ cacheAtStart = {}
    /\ prevRun = [t \in Tests |-> [source |-> source[t], annotation |-> None]]

GNext ==
    \/ \E gap \in CallGaps, tokens \in EstimatedTokens : GAnnotate(gap, tokens)
    \/ GCycle
    \/ GGiveUp
    \/ \E tokens_used \in TokensUsed, body \in ResponseBodies : GPostOk(tokens_used, body)
    \/ GPostError
    \/ GPost429

(***************************************************************************)
(* One _GeminiRateLimiter on its own: limits, recorded requests and tokens  *)
(* and query times drawn from bounded sets.                                 *)
(***************************************************************************)
MaxOps == 5         \* records and clock advances applied to the limiter

\* The _GeminiRateLimitConfig of the limiter; 0 stands for a limit not set.
LimiterLimits ==
    { [requests_per_minute |-> 1, tokens_per_minute |-> 2, requests_per_day |-> 0],
      [requests_per_minute |-> 2, tokens_per_minute |-> 0, requests_per_day |-> 0],
      [requests_per_minute |-> 0, tokens_per_minute |-> 3, requests_per_day |-> 2] }

\* Seconds that pass between two operations on the limiter.
Advances == {1, MinuteWindow, DayWindow}

\* tokens_used passed to record_tokens
RecordedTokens == {1, 2}

\* request_tokens passed to next_available_in
RequestTokens == {0, 1, 3}

\* No next_available_in call was made yet.
NoResult == [wait |-> NoTime, rpm |-> NoTime, tpm |-> NoTime]

\* Time passes.
LAdvance(d) ==
    /\ l_ops < MaxOps
    /\ l_ops' = l_ops + 1
    /\ l_now' = l_now + d
    /\ l_op' = "advance"
    /\ UNCHANGED <<l_limits, l_state, l_tokens, l_result, l_requests, l_had,
                   ovars, gvars, pvars, mvars>>

\* limiter.record_request()
LRecordRequest ==
    /\ l_ops < MaxOps
    /\ l_ops' = l_ops + 1
    /\ l_state' = record_request(l_state, l_now)
    /\ l_requests' = Append(l_requests, l_now)
    /\ l_op' = "record_request"
    /\ UNCHANGED <<l_limits, l_now, l_tokens, l_result, l_had, ovars, gvars, pvars, mvars>>

\* limiter.record_tokens(tokens_used)
LRecordTokens(tokens_used) ==
    /\ l_ops < MaxOps
    /\ l_ops' = l_ops + 1
    /\ l_state' = record_tokens(l_state, l_now, tokens_used)
    /\ l_op' = "record_tokens"
    /\ UNCHANGED <<l_limits, l_now, l_tokens, l_result, l_requests, l_had,
                   ovars, gvars, pvars, mvars>>

\* limiter.next_available_in(request_tokens): the windows are pruned, then
\* the daily limit is evaluated, then the two per-minute waits.
LNextAvailable(request_tokens) ==
    /\ l_op # "next_available_in"
    /\ l_had' = l_state
    /\ l_state' = prune(l_state, l_now)
    /\ l_tokens' = request_tokens
    /\ l_result' =
          LET wait == next_available_in(l_state, l_limits, l_now, request_tokens)
          IN  IF wait = NoTime THEN NoResult
              ELSE [wait |-> wait,
                    rpm |-> seconds_until_rpm_available(l_state', l_limits, l_now),
                    tpm |-> seconds_until_tpm_available(l_state', l_limits, l_now,
                                                        request_tokens)]
    /\ l_op' = "next_available_in"
    /\ UNCHANGED <<l_limits, l_now, l_ops, l_requests, ovars, gvars, pvars, mvars>>

\* No limiter is driven on its own: the limiter variables under Spec and
\* SpecGemini.
LQuiet ==
    /\ l_limits = [requests_per_minute |-> 0, tokens_per_minute |-> 0,
                   requests_per_day |-> 0]
    /\ l_state = EmptyLimiter
    /\ l_now = 0
    /\ l_ops = 0
    /\ l_op = "none"
    /\ l_tokens = 0
    /\ l_result = NoResult
    /\ l_requests = <<>>
    /\ l_had = EmptyLimiter

\* _GeminiRateLimiter(limits)
LInit ==
    /\ l_limits \in LimiterLimits
    /\ l_state = EmptyLimiter
    /\ l_now = 0
    /\ l_ops = 0
    /\ l_op = "none"
    /\ l_tokens = 0
    /\ l_result = NoResult
    /\ l_requests = <<>>
    /\ l_had = EmptyLimiter

LNext ==
    \/ \E d \in Advances : LAdvance(d)
    \/ LRecordRequest
    \/ \E tokens_used \in RecordedTokens : LRecordTokens(tokens_used)
    \/ \E request_tokens \in RequestTokens : LNextAvailable(request_tokens)

(***************************************************************************)
(* OllamaProvider (llm/ollama.py) and LiteLLMProvider                      *)
(* (llm/litellm_provider.py): one annotate call after the other, each      *)
(* request ending with an exception or with a response text.               *)
(***************************************************************************)
MaxAnnotations == 2     \* provider.annotate calls made on the provider

ollama_max_retries == 3     \* OllamaProvider.annotate: max_retries = 3

\* The JSON value a response object holds under "scenario" or "why_needed":
\* no such key, a string, a number other than 0.
JsonTexts == {"missing", "string", "number"}

\* The JSON value a response object holds under "key_assertions": no such
\* key, a list, a string, null.
JsonAssertions == {"missing", "list", "string", "null"}

\* The text of a response: no JSON in it, JSON that does not decode, or a
\* JSON object.
Responses ==
    {[kind |-> k, scenario |-> "missing", why_needed |-> "missing",
      key_assertions |-> "missing"] : k \in {"no_json", "bad_json"}}
    \cup {[kind |-> "object", scenario |-> s, why_needed |-> w, key_assertions |-> a] :
             s \in JsonTexts, w \in JsonTexts, a \in JsonAssertions}

NoResponse ==
    [kind |-> "none", scenario |-> "missing", why_needed |-> "missing",
     key_assertions |-> "missing"]

\* str(e) of the exceptions a request raises (connection, timeout, HTTP
\* status).
CallErrors == {"connection refused", "read timeout"}

\* How a request ends.
Outcomes ==
    {[raised |-> e, response |-> NoResponse] : e \in CallErrors}
    \cup {[raised |-> "", response |-> r] : r \in Responses}

NoOutcome == [raised |-> "", response |-> NoResponse]

\* An LlmAnnotation: its error ("" for None) and the kinds of value in its
\* three fields ("empty" is the empty string, "list" a list of strings).
LlmAnnotation(error, scenario, why_needed, key_assertions) ==
    [error |-> error, scenario |-> scenario, why_needed |-> why_needed,
     key_assertions |-> key_assertions]

\* LlmAnnotation(error=...): the other fields keep their defaults.
ErrorAnnotation(error) == LlmAnnotation(error, "empty", "empty", "list")

\* No annotate call has returned.
NoAnnotation == LlmAnnotation("pending", "empty", "empty", "list")

\* data.get(key, default)
data_get(value, default) == IF value = "missing" THEN default ELSE value

\* if not isinstance(x, str): x = str(x) if x else ""
coerce_text(value) == IF value = "empty" THEN "empty" ELSE "string"

\* OllamaProvider._parse_response
ollama_parse_response(response) ==
    IF response.kind # "object"
    THEN ErrorAnnotation("Failed to parse LLM response as JSON")
    ELSE IF data_get(response.key_assertions, "list") # "list"
         THEN ErrorAnnotation("Invalid response: key_assertions must be a list")
         ELSE LlmAnnotation("", coerce_text(data_get(response.scenario, "empty")),
                            coerce_text(data_get(response.why_needed, "empty")),
                            "list")

\* LiteLLMProvider._parse_response
litellm_parse_response(response) ==
    IF response.kind # "object"
    THEN ErrorAnnotation("Failed to parse LLM response as JSON")
    ELSE LlmAnnotation("", data_get(response.scenario, "empty"),
                       data_get(response.why_needed, "empty"),
                       data_get(response.key_assertions, "list"))

\* "context too long" in annotation.error.lower()
context_too_long(error) == error \in {"Context too long"}

\* time.sleep(2 * (attempt + 1))
ollama_backoff_flat(a) == 2
ollama_backoff(a) == 2 * (a + 1)

\* The annotation OllamaProvider.annotate returns after its loop.
ollama_failed(error) ==
    ErrorAnnotation("Failed after " \o ToString(ollama_max_retries)
                        \o " retries. Last error: " \o error)

\* The annotation returned when the provider's package does not import.
not_installed ==
    IF p_provider = "ollama"
    THEN ErrorAnnotation("httpx not installed. Install with: pip install httpx")
    ELSE ErrorAnnotation("litellm not installed. Install with: pip install litellm")

\* provider.annotate is called: it returns at once when its package is
\* missing, and goes on to its request otherwise.
PAnnotate ==
    /\ p_pc = "idle"
    /\ p_calls < MaxAnnotations
    /\ p_calls' = p_calls + 1
    /\ p_attempt' = 0
    /\ last_error' = ""
    /\ p_outcome' = NoOutcome
    /\ p_requests' = 0
    /\ p_sleeps' = <<>>
    /\ p_all_raised' = TRUE
    /\ p_rejected' = 0
    /\ p_sent_after_rejection' = 0
    /\ IF p_installed
       THEN /\ p_annotation' = NoAnnotation
            /\ p_pc' = "call"
       ELSE /\ p_annotation' = not_installed
            /\ p_pc' = "idle"
    /\ UNCHANGED <<p_provider, p_installed, p_now, ovars, gvars, lvars, mvars>>

\* One iteration of OllamaProvider.annotate's for loop: the request, the
\* parse, the return of an annotation without error (or with a permanent
\* one), else the sleep before the next attempt or, after the last
\* attempt, the return of the final error.
OllamaAttempt(outcome) ==
    /\ p_provider = "ollama"
    /\ p_pc = "call"
    /\ p_outcome' = outcome
    /\ p_requests' = p_requests + 1
    /\ p_all_raised' = (p_all_raised /\ outcome.raised # "")
    /\ p_sent_after_rejection' =
          p_sent_after_rejection + (IF p_rejected > 0 THEN 1 ELSE 0)
    /\ LET annotation == ollama_parse_response(outcome.response)
           raised == outcome.raised # ""
       IN  /\ p_rejected' =
                 p_rejected + (IF ~raised /\ annotation.error # "" THEN 1 ELSE 0)
           /\ IF ~raised /\ (annotation.error = "" \/ context_too_long(annotation.error))
              THEN /\ p_annotation' = annotation
                   /\ p_pc' = "idle"
                   /\ UNCHANGED <<p_attempt, last_error, p_now, p_sleeps>>
              ELSE /\ last_error' = (IF raised THEN outcome.raised ELSE annotation.error)
                   /\ IF p_attempt < ollama_max_retries - 1
                      THEN /\ p_now' = p_now + ollama_backoff(p_attempt)
                           /\ p_sleeps' = Append(p_sleeps, ollama_backoff(p_attempt))
                           /\ p_attempt' = p_attempt + 1
                           /\ UNCHANGED <<p_annotation, p_pc>>
                      ELSE /\ p_annotation' = ollama_failed(last_error')
                           /\ p_pc' = "idle"
                           /\ UNCHANGED <<p_attempt, p_now, p_sleeps>>
    /\ UNCHANGED <<p_provider, p_installed, p_calls, ovars, gvars, lvars, mvars>>

\* LiteLLMProvider.annotate: litellm.completion raises, or its content is
\* parsed; either way the annotation is returned.
LiteLLMCall(outcome) ==
    /\ p_provider = "litellm"
    /\ p_pc = "call"
    /\ p_outcome' = outcome
    /\ p_requests' = p_requests + 1
    /\ p_all_raised' = (p_all_raised /\ outcome.raised # "")
    /\ p_sent_after_rejection' =
          p_sent_after_rejection + (IF p_rejected > 0 THEN 1 ELSE 0)
    /\ LET annotation == litellm_parse_response(outcome.response)
           raised == outcome.raised # ""
       IN  /\ p_rejected' =
                 p_rejected + (IF ~raised /\ annotation.error # "" THEN 1 ELSE 0)
           /\ p_annotation' =
                 IF raised THEN ErrorAnnotation(outcome.raised) ELSE annotation
    /\ p_pc' = "idle"
    /\ UNCHANGED <<p_provider, p_installed, p_calls, p_now, plocals, p_sleeps,
                   ovars, gvars, lvars, mvars>>

\* No such provider is driven: the variables under the other
\* specifications.
PQuiet ==
    /\ p_provider = "litellm"
    /\ p_installed = TRUE
    /\ p_pc = "idle"
    /\ p_calls = 0
    /\ p_now = 0
    /\ p_attempt = 0
    /\ last_error = ""
    /\ p_annotation = NoAnnotation
    /\ p_outcome = NoOutcome
    /\ p_requests = 0
    /\ p_sleeps = <<>>
    /\ p_all_raised = TRUE
    /\ p_rejected = 0
    /\ p_sent_after_rejection = 0

\* A freshly constructed OllamaProvider or LiteLLMProvider.
PInit ==
    /\ p_provider \in {"ollama", "litellm"}
    /\ p_installed \in BOOLEAN
    /\ p_pc = "idle"
    /\ p_calls = 0
    /\ p_now = 0
    /\ p_attempt = 0
    /\ last_error = ""
    /\ p_annotation = NoAnnotation
    /\ p_outcome = NoOutcome
    /\ p_requests = 0
    /\ p_sleeps = <<>>
    /\ p_all_raised = TRUE
    /\ p_rejected = 0
    /\ p_sent_after_rejection = 0

PNext ==
    \/ PAnnotate
    \/ \E outcome \in Outcomes : OllamaAttempt(outcome)
    \/ \E outcome \in Outcomes : LiteLLMCall(outcome)

(***************************************************************************)
(* GeminiProvider's model list and per-model limits                        *)
(* (_ensure_models_and_limits, _ensure_rate_limits in llm/gemini.py).      *)
(***************************************************************************)
MaxEnsures == 3     \* _ensure_models_and_limits calls (one per annotate call)

\* _MODEL_LIST_REFRESH_INTERVAL = 6 * 3600
MODEL_LIST_REFRESH_INTERVAL == 21600

\* Model names the service knows.
ModelNames == {"a", "b", "c"}

\* self.config.model or "gemini-1.5-flash-latest"
DefaultModel == "gemini-1.5-flash-latest"

\* Config.model: the text and the parts text.split(",") gives, stripped and
\* with empty parts dropped. Not set, the literal "all", one name, a
\* preference list, a name with the "models/" prefix, a name given twice.
ConfigModels ==
    { [text |-> "", parts |-> <<>>],
      [text |-> "all", parts |-> <<"all">>],
      [text |-> "c,a", parts |-> <<"c", "a">>],
      [text |-> "models/b", parts |-> <<"models/b">>],
      [text |-> "a,a", parts |-> <<"a", "a">>] }

\* What _fetch_available_models returns: the names of the models that
\* support generateContent, in the order of the response; the empty list
\* when the request fails or lists none.
Discoveries == { <<>>, <<"a", "b">>, <<"b", "c", "a">> }

\* Seconds between two calls of _ensure_models_and_limits, and the time.time()
\* of the first.
EnsureGaps == {1, 21599, 21600}
StartTimes == {0, 1000000}

\* Python's None where a limit is expected.
NoLimit == -1

\* _GeminiRateLimitConfig()
UnsetLimits ==
    [requests_per_minute |-> NoLimit, tokens_per_minute |-> NoLimit,
     requests_per_day |-> NoLimit]

\* The outcome of _fetch_rate_limits: it raises, or returns the limits the
\* service reports (requests per minute absent, 0, below and above
\* llm_requests_per_minute).
LimitReports ==
    { [raised |-> TRUE, limits |-> UnsetLimits] } \cup
    { [raised |-> FALSE,
       limits |-> [requests_per_minute |-> r, tokens_per_minute |-> 4,
                   requests_per_day |-> NoLimit]] : r \in {NoLimit, 0, 2, 9} }

\* self._models before the first fetch (None); after a fetch the list is
\* never empty.
NoModels == <<>>

\* _normalize_model_name
normalize_model_name(name) ==
    IF \E n \in ModelNames : name = "models/" \o n
    THEN CHOOSE n \in ModelNames : name = "models/" \o n
    ELSE name

\* _parse_preferred_models
parse_preferred_models(cfg) ==
    IF cfg.text = "" THEN <<>>
    ELSE IF cfg.text = "all" THEN <<>>
    ELSE [i \in 1..Len(cfg.parts) |-> normalize_model_name(cfg.parts[i])]

\* should_refresh of _ensure_models_and_limits
should_refresh_strictly_later(models, fetched_at, now) ==
    models = NoModels \/ now - fetched_at > MODEL_LIST_REFRESH_INTERVAL
should_refresh(models, fetched_at, now) ==
    models = NoModels \/ now - fetched_at >= MODEL_LIST_REFRESH_INTERVAL

\* if not self._models: self._models = [self.config.model or "gemini-1.5-flash-latest"]
fetched_or_fallback(cfg, fetched) ==
    IF fetched # <<>> THEN fetched
    ELSE << IF cfg.text # "" THEN cfg.text ELSE DefaultModel >>

\* The list _ensure_models_and_limits builds from a fetched list: preferred
\* models that are available, then the other models of the list.
ordered_models(cfg, fetched) ==
    LET models == fetched_or_fallback(cfg, fetched)
        available_set == SeqToSet(models)
        InAvailable(n) == n \in available_set
        ordered == SelectSeq(parse_preferred_models(cfg), InAvailable)
        NotSeen(n) == n \notin SeqToSet(ordered)
    IN  ordered \o SelectSeq(models, NotSeen)

\* The limits _ensure_rate_limits computes for a model it has no entry for.
computed_limits_as_reported(report) ==
    IF report.limits.requests_per_minute = NoLimit
    THEN [report.limits EXCEPT !.requests_per_minute = llm_requests_per_minute]
    ELSE report.limits
computed_limits(report) ==
    LET limits == IF report.limits.requests_per_minute = NoLimit
                  THEN [report.limits EXCEPT
                            !.requests_per_minute = llm_requests_per_minute]
                  ELSE report.limits
    IN  [limits EXCEPT !.requests_per_minute = Min(@, llm_requests_per_minute)]

\* _ensure_rate_limits for every model of the list: a model with an entry
\* keeps it, a model without one gets the limits computed from the report.
ensure_rate_limits(known, models, report) ==
    [n \in DOMAIN known \cup SeqToSet(models) |->
        IF n \in DOMAIN known THEN known[n] ELSE computed_limits(report)]

\* One call of _ensure_models_and_limits, gap seconds after the last one:
\* the service would answer a list request with fetched and a limits
\* request with report.
MEnsure(gap, fetched, report) ==
    /\ m_calls < MaxEnsures
    /\ LET now == IF m_calls = 0 THEN m_now ELSE m_now + gap
           refresh == should_refresh(m_models, models_fetched_at, now)
           models == IF refresh THEN ordered_models(config_model, fetched)
                     ELSE m_models
       IN  /\ m_now' = now
           /\ m_calls' = m_calls + 1
           /\ m_models' = models
           /\ models_fetched_at' = IF refresh THEN now ELSE models_fetched_at
           /\ m_rate_limits' = ensure_rate_limits(m_rate_limits, models, report)
           /\ h_fetches' = IF refresh THEN Append(h_fetches, now) ELSE h_fetches
           /\ h_discovered' = IF refresh THEN fetched ELSE h_discovered
           /\ h_reports' =
                 [n \in DOMAIN m_rate_limits \cup SeqToSet(models) |->
                     IF n \in DOMAIN m_rate_limits THEN h_reports[n] ELSE report]
    /\ UNCHANGED <<config_model, ovars, gvars, lvars, pvars>>

\* GeminiProvider.__init__, under a configuration of the sets above
MInit ==
    /\ config_model \in ConfigModels
    /\ m_models = NoModels
    /\ models_fetched_at = 0
    /\ m_rate_limits = <<>>
    /\ m_now \in StartTimes
    /\ m_calls = 0
    /\ h_fetches = <<>>
    /\ h_discovered = <<>>
    /\ h_reports = <<>>

\* A provider whose model list is never asked for.
MQuiet ==
    /\ config_model = [text |-> "", parts |-> <<>>]
    /\ m_models = NoModels
    /\ models_fetched_at = 0
    /\ m_rate_limits = <<>>
    /\ m_now = 0
    /\ m_calls = 0
    /\ h_fetches = <<>>
    /\ h_discovered = <<>>
    /\ h_reports = <<>>

MNext ==
    \E gap \in EnsureGaps, fetched \in Discoveries, report \in LimitReports :
        MEnsure(gap, fetched, report)

vars == <<ovars, gvars, lvars, pvars, mvars>>

Init == OInit /\ GQuiet /\ LQuiet /\ PQuiet /\ MQuiet

Next == ONext

Spec == Init /\ [][Next]_vars

PacingInit == PacedInit /\ GQuiet /\ LQuiet /\ PQuiet /\ MQuiet

SpecPacing == PacingInit /\ [][Next]_vars

GeminiInit == GInit /\ OQuiet /\ LQuiet /\ PQuiet /\ MQuiet

LimiterInit == LInit /\ OQuiet /\ GQuiet /\ PQuiet /\ MQuiet

SpecLimiter == LimiterInit /\ [][LNext]_vars

ProvidersInit == PInit /\ OQuiet /\ GQuiet /\ LQuiet /\ MQuiet

ModelsInit == MInit /\ OQuiet /\ GQuiet /\ LQuiet /\ PQuiet

SpecModels == ModelsInit /\ [][MNext]_vars

SpecProviders == ProvidersInit /\ [][PNext]_vars

SpecGemini == GeminiInit /\ [][GNext]_vars

\* The provider's code runs sequentially and every sleep and HTTP request
\* ends (httpx.post has a timeout): a step that can be taken is taken.
SpecGeminiFair == SpecGemini /\ WF_vars(GNext)

(***************************************************************************)
(* Properties of annotate_tests, checked under Spec.                       *)
(***************************************************************************)

\* LLM annotation is switched on: annotate_tests gets past its early returns.
AnnotationOn == is_llm_enabled /\ available

\* A run of annotate_tests is in progress or has just returned.
InRun == pc \in {"loop", "done"}

\* The previous run annotated t under the source text t still has.
AnnotatedUnchanged(t) ==
    /\ prevRun[t].annotation # None
    /\ prevRun[t].source = source[t]

\* The run has handled t by attaching the previous run's annotation
\* without calling the provider for it.
ServedFromCache(t) ==
    /\ llm_annotation[t] = prevRun[t].annotation
    /\ t \notin SeqToSet(calls)

\* C1 as stated: in a run that follows another one on the same cache, every
\* handled test that the earlier run annotated and whose source is unchanged
\* gets the cached annotation and no provider call.
C1_IdempotentAsStated ==
    \A t \in Tests :
        (InRun /\ t \in cacheReads /\ AnnotatedUnchanged(t)) => ServedFromCache(t)

\* C1, amended: the same, for the tests whose annotation is not older than
\* the cache TTL when the later run looks it up.
C1_IdempotentWithinTtl ==
    \A t \in Tests :
        (/\ InRun
         /\ t \in cacheReads
         /\ AnnotatedUnchanged(t)
         /\ wall - prevRun[t].annotation.made <= llm_cache_ttl_seconds)
            => ServedFromCache(t)

C1_Witness ==
    /\ pc = "done"
    /\ run = 2
    /\ \E t \in Tests :
        /\ t \in cacheReads
        /\ AnnotatedUnchanged(t)
        /\ wall - prevRun[t].annotation.made <= llm_cache_ttl_seconds
        /\ llm_annotation[t] = prevRun[t].annotation
        /\ llm_annotation[t].made < wall
    /\ calls = <<>>

\* The cache the run found holds annotations for t, all of them stored
\* under a source text other than the one t has now.
CachedUnderOtherTextOnly(t) ==
    /\ \E e \in cacheAtStart : e.nodeid = t
    /\ \A e \in cacheAtStart : e.nodeid = t => e.annotation.of[2] # source[t]

\* C2: cache invalidation.  No run ever attaches to a test an annotation
\* made for another source text than the test's current one; and a handled
\* test whose cached annotations were all stored under a different text gets
\* a fresh provider call, whose result is attached and stored under the hash
\* of the new text.
C2_CacheInvalidation ==
    \A t \in Tests :
        /\ (InRun /\ llm_annotation[t] # None) => llm_annotation[t].of = <<t, source[t]>>
        /\ (InRun /\ t \in cacheReads /\ CachedUnderOtherTextOnly(t)) =>
              /\ llm_annotation[t] \notin {e.annotation : e \in cacheAtStart}
              /\ t \in SeqToSet(calls)
              /\ \A e \in cacheAtStart : llm_annotation[t].made > e.timestamp
              /\ \E e \in cache :
                    /\ e.nodeid = t
                    /\ e.source_hash = hash_source(source[t])
                    /\ e.annotation = llm_annotation[t]

C2_Witness ==
    /\ pc = "done"
    /\ run = 2
    /\ wall <= llm_cache_ttl_seconds
    /\ \E t \in Tests :
        /\ t \in cacheReads
        /\ CachedUnderOtherTextOnly(t)
        /\ prevRun[t].annotation # None
        /\ prevRun[t].source # source[t]
        /\ llm_annotation[t].of = <<t, source[t]>>
        /\ t \in SeqToSet(calls)

\* C3: failure containment.  Every test up to the loop's position carries an
\* annotation, the failed provider calls are counted and not more; when
\* annotate_tests has returned, every test of limited_tests was looked up
\* and carries an annotation, whatever calls failed.
C3_FailureContainment ==
    /\ InRun =>
        /\ \A i \in 1..Len(limited) :
              i <= index => (llm_annotation[limited[i]] # None /\ limited[i] \in cacheReads)
        /\ failures = Cardinality({t \in SeqToSet(calls) : llm_annotation[t].error})
    /\ pc = "done" =>
        \A i \in 1..Len(limited) :
            /\ llm_annotation[limited[i]] # None
            /\ limited[i] \in cacheReads

C3_Witness ==
    /\ pc = "done"
    /\ Len(limited) >= 2
    /\ limited[1] \in SeqToSet(calls)
    /\ llm_annotation[limited[1]].error
    /\ \A i \in 2..Len(limited) : llm_annotation[limited[i]] # None
    /\ failures >= 1

\* C4: opt-out.  A test with llm_opt_out set is never passed to the
\* provider, never looked up in or stored to the cache, and its
\* llm_annotation stays unset.
C4_OptOut ==
    \A t \in Tests :
        opt_out[t] =>
            /\ t \notin SeqToSet(calls)
            /\ t \notin cacheReads
            /\ t \notin cacheWrites
            /\ llm_annotation[t] = None
            /\ \A e \in cache : e.nodeid # t

C4_Witness ==
    /\ pc = "done"
    /\ AnnotationOn
    /\ \E t, u \in Tests :
        /\ t < u
        /\ opt_out[t]
        /\ llm_annotation[t] = None
        /\ ~opt_out[u]
        /\ u \in SeqToSet(calls)

\* The first n tests without opt-out, in input order.
FirstEligible(n) ==
    {t \in Tests : ~opt_out[t] /\ Cardinality({u \in 1..(t - 1) : ~opt_out[u]}) < n}

\* C5: the cap.  With llm_max_tests = n >= 1, when annotate_tests has
\* returned it has handled exactly the first n tests without opt-out, called
\* the provider at most n times, and left every other test without
\* annotation.
C5_MaxTestsCap ==
    (pc = "done" /\ AnnotationOn /\ llm_max_tests >= 1) =>
        /\ cacheReads = FirstEligible(llm_max_tests)
        /\ Len(calls) <= llm_max_tests
        /\ \A t \in Tests :
              t \notin FirstEligible(llm_max_tests) => llm_annotation[t] = None
        /\ \A t \in FirstEligible(llm_max_tests) : llm_annotation[t] # None

C5_Witness ==
    /\ pc = "done"
    /\ AnnotationOn
    /\ llm_max_tests = 1
    /\ Cardinality({t \in Tests : ~opt_out[t]}) = 2
    /\ opt_out[1]
    /\ Len(calls) = 1
    /\ llm_annotation[2] # None
    /\ llm_annotation[3] = None

\* C6: with llm_max_tests = 0 (no limit), when annotate_tests has returned
\* every test without opt-out was handled.
C6_ZeroMeansNoLimit ==
    (pc = "done" /\ AnnotationOn /\ llm_max_tests = 0) =>
        \A t \in Tests : ~opt_out[t] => (t \in cacheReads /\ llm_annotation[t] # None)

(***************************************************************************)
(* Properties of GeminiProvider.annotate, checked under SpecGemini and     *)
(* SpecGeminiFair.                                                         *)
(***************************************************************************)

\* The counters of one annotate call stay within fixed limits: selection
\* cycles, provider calls, HTTP requests of one provider call and of the
\* whole annotate call.
C7_Bounded ==
    /\ attempts <= 2 * NumModels
    /\ h_provider_calls <= attempts
    /\ attempt <= max_retries
    /\ h_tries <= max_retries + 1
    /\ h_http <= 2 * NumModels * (max_retries + 1)

\* The orchestrator's loop has made its last provider.annotate call and
\* the call has returned.
LoopEnded == gpc = "idle" /\ gcalls = MaxCalls

\* C7: termination.  Whatever the server answers and whatever the models'
\* limiters hold, an annotate call makes boundedly many selection cycles
\* and HTTP requests, every annotate call that was started returns, and the
\* loop that makes the calls reaches its end.
C7_Termination ==
    /\ []C7_Bounded
    /\ (gpc # "idle") ~> (gpc = "idle")
    /\ <>LoopEnded

\* The server answered every request of an annotate call with 429, through
\* the last cycle the loop allows.
C7_Witness ==
    /\ LoopEnded
    /\ result = "Gemini rate limits reached for all available models"
    /\ attempts = 2 * NumModels
    /\ h_http = 2 * NumModels * (max_retries + 1)

\* C8: bounded rotation.  An annotate call runs at most 2 x (number of
\* models) selection cycles, and at least one before it returns from the
\* loop; each cycle makes at most one provider call; a cycle that finds no
\* candidate ends the call in that cycle with an error annotation, with no
\* time slept and no HTTP request sent.
C8_BoundedRotation ==
    /\ attempts <= 2 * NumModels
    /\ h_provider_calls <= attempts
    /\ (gpc = "idle" /\ gcalls >= 1 /\ genv = "ok") => attempts >= 1
    /\ h_cycle.candidates = 0 =>
          /\ gpc = "idle"
          /\ result \in {AfterLoopError(TRUE), AfterLoopError(FALSE)}
          /\ clock = h_cycle.at
          /\ h_tries = 0
          /\ h_provider_calls < attempts

C8_Witness ==
    /\ h_cycle.candidates = 0
    /\ attempts = 3
    /\ h_provider_calls = 2
    /\ gpc = "idle"

\* C9 as stated: a provider call that ends with the rate-limit-exceeded
\* result has made exactly max_retries HTTP requests.
C9_ExactlyMaxRetriesTries ==
    h_outcome = "rate_limit_exceeded" => h_tries = max_retries

\* C9, amended: against a server that answers 429 every time, a provider
\* call makes exactly max_retries + 1 HTTP requests (the first try and
\* max_retries retries) and then ends with the rate-limit-exceeded result.
C9_RetryCeiling ==
    /\ h_outcome = "rate_limit_exceeded" => (h_tries = max_retries + 1 /\ h_all429)
    /\ (gpc = "post" /\ h_all429) => h_tries <= max_retries
    /\ (h_all429 /\ h_tries > max_retries) =>
          (h_tries = max_retries + 1 /\ h_outcome = "rate_limit_exceeded")

C9_Witness ==
    /\ h_outcome = "rate_limit_exceeded"
    /\ h_all429
    /\ h_tries = max_retries + 1
    /\ gpc = "select"

\* C10: the number of retries after which a provider call gives up on 429
\* responses is the configured llm_max_retries.
C10_CeilingFollowsSetting ==
    h_outcome = "rate_limit_exceeded" => h_tries - 1 = llm_max_retries

\* The HTTP requests sent to model m from its i-th request on, within a
\* window of the given length that begins with the i-th request.
SentInWindow(m, i, window) ==
    Cardinality({j \in i..Len(h_sent[m]) : h_sent[m][j] - h_sent[m][i] < window})

\* C11: quota is never over-spent.  The HTTP requests sent to a model
\* number at most its requests_per_minute in every 60-second window and at
\* most its requests_per_day in every 24-hour window.
C11_QuotaNeverOverspent ==
    \A m \in Models :
        /\ rate_limits[m].requests_per_minute # 0 =>
              \A i \in 1..Len(h_sent[m]) :
                  SentInWindow(m, i, MinuteWindow) <= rate_limits[m].requests_per_minute
        /\ rate_limits[m].requests_per_day # 0 =>
              \A i \in 1..Len(h_sent[m]) :
                  SentInWindow(m, i, DayWindow) <= rate_limits[m].requests_per_day

\* The requests in model m's daily window that are at most 24 hours old.
DayCount(m) ==
    Cardinality({i \in 1..Len(rate_limiters[m].daily_requests) :
                    rate_limiters[m].daily_requests[i] >= clock - DayWindow})

\* Model m's daily limit is exhausted: it is marked exhausted and 24 hours
\* have not passed since, or it is not marked and its daily window is full.
DailyExhausted(m) ==
    \/ /\ model_exhausted_at[m] # NoTime
       /\ clock - model_exhausted_at[m] < DAILY_LIMIT_WINDOW
    \/ /\ model_exhausted_at[m] = NoTime
       /\ rate_limits[m].requests_per_day # 0
       /\ DayCount(m) >= rate_limits[m].requests_per_day

\* A step that runs one selection cycle of annotate.
SelectionStep == gpc = "select" /\ attempts' = attempts + 1

\* C12: model rotation.  A selection cycle that finds some model with
\* remaining daily budget selects a model with remaining budget, never one
\* whose daily limit is exhausted, and an HTTP request is only ever sent to
\* the selected model, which is not marked exhausted.
C12_ModelRotation ==
    [][ /\ (SelectionStep /\ \E b \in Models : ~DailyExhausted(b)) =>
              (gpc' = "post" /\ model' \in Models /\ ~DailyExhausted(model'))
        /\ \A a \in Models :
              h_sent'[a] # h_sent[a] =>
                  (a = model /\ model_exhausted_at[a] = NoTime)
      ]_vars

\* Model 1 is marked exhausted and model 2 was selected in its place.
C12_Witness ==
    /\ gpc = "post"
    /\ model = 2
    /\ model_exhausted_at[1] # NoTime
    /\ h_sent[1] # <<>>

\* Model m is marked exhausted and 24 hours have not passed since the mark.
MarkedWithinDay(m) ==
    /\ model_exhausted_at[m] # NoTime
    /\ clock - model_exhausted_at[m] < DAILY_LIMIT_WINDOW

\* C13: a model whose limiter returns None in a selection cycle is marked
\* exhausted at the time of that cycle, and while a model is marked and 24
\* hours have not passed since the mark, no step sends a request to it,
\* records a request or tokens in its limiter, or changes the mark.
C13_ExhaustedModelLeftAlone ==
    [][ \A m \in Models :
          /\ ( /\ SelectionStep
               /\ model_exhausted_at[m] = NoTime
               /\ rate_limits[m].requests_per_day # 0
               /\ DayCount(m) >= rate_limits[m].requests_per_day )
             => model_exhausted_at'[m] = clock
          /\ MarkedWithinDay(m) =>
                /\ h_sent'[m] = h_sent[m]
                /\ rate_limiters'[m] = rate_limiters[m]
                /\ model_exhausted_at'[m] = model_exhausted_at[m]
      ]_vars

\* A later annotate call ran a selection cycle while model 1 was still
\* marked exhausted by an earlier call, and called model 2.
C13_Witness ==
    /\ gcalls = 2
    /\ attempts >= 1
    /\ h_provider_calls >= 1
    /\ MarkedWithinDay(1)
    /\ h_cycle.at > model_exhausted_at[1]
    /\ h_sent[1] # <<>>

\* A limiter that holds nothing but one request recorded at time t.
OneRequestAt(t) ==
    [request_times |-> <<t>>, token_usage |-> <<>>, daily_requests |-> <<t>>]

\* C14: recovery.  In the first selection cycle that runs 24 hours or more
\* after a model was marked exhausted, the mark is removed, the model is a
\* candidate again (the cycle selects some model), and the model's limiter
\* holds empty windows: nothing at all if another model is selected, only
\* the request recorded by this selection if the model itself is.
C14_Recovery ==
    [][ \A m \in Models :
          ( /\ SelectionStep
            /\ model_exhausted_at[m] # NoTime
            /\ clock - model_exhausted_at[m] >= DAILY_LIMIT_WINDOW )
          => /\ model_exhausted_at'[m] = NoTime
             /\ gpc' = "post"
             /\ IF model' = m
                THEN rate_limiters'[m] = OneRequestAt(clock')
                ELSE rate_limiters'[m] = EmptyLimiter
      ]_vars

\* Model 1 was found recovered by the last cycle and was selected.
C14_Witness ==
    /\ 1 \in h_cycle.recovered
    /\ gpc = "post"
    /\ model = 1
    /\ rate_limiters[1] = OneRequestAt(clock)
    /\ clock - h_sent[1][1] >= DAILY_LIMIT_WINDOW

\* annotate has returned from a cycle that found no candidate, without
\* having called _call_gemini.
ReturnedWithoutCall ==
    /\ gpc = "idle"
    /\ gcalls >= 1
    /\ genv = "ok"
    /\ h_cycle.candidates = 0
    /\ h_provider_calls = 0

\* C15: when annotate returns without making a call because every model is
\* daily-exhausted, whether found exhausted in this call or marked by an
\* earlier one, the error of the returned annotation is the
\* requests-per-day message.
C15_DailyLimitMessage ==
    (ReturnedWithoutCall /\ \A m \in Models : DailyExhausted(m))
        => result = "Gemini requests-per-day limit reached; skipping annotation"

\* C16: once annotate has returned the requests-per-day error with no model
\* left, the orchestrator's loop makes no further provider.annotate call in
\* the run (none, at least, within 24 hours).
C16_SkipRemaining ==
    [][ ( /\ gpc = "idle"
          /\ h_cycle.candidates = 0
          /\ result = "Gemini requests-per-day limit reached; skipping annotation" )
        => (gcalls' = gcalls \/ clock' - clock >= DAILY_LIMIT_WINDOW)
      ]_vars

(***************************************************************************)
(* Properties of _GeminiRateLimiter, checked under SpecLimiter.            *)
(***************************************************************************)

\* The last operation was a next_available_in call.
Queried == l_op = "next_available_in"

\* The record_request calls made at most the given number of seconds ago.
RecordedWithin(window) ==
    {i \in 1..Len(l_requests) : l_now - l_requests[i] <= window}

\* C17: next_available_in returns None exactly when requests_per_day is set
\* and the requests recorded within the last 24 hours number at least that
\* limit; whatever else it returns is a number of seconds that is not
\* negative.
C17_NoneIffDailyExhausted ==
    Queried =>
        /\ (l_result.wait = NoTime) <=>
              /\ l_limits.requests_per_day # 0
              /\ Cardinality(RecordedWithin(DayWindow)) >= l_limits.requests_per_day
        /\ l_result.wait # NoTime => l_result.wait >= 0

\* None is returned although a request recorded earlier is more than 24
\* hours old by now: the ones recorded since fill the limit.
C17_Witness ==
    /\ Queried
    /\ l_result.wait = NoTime
    /\ Cardinality(RecordedWithin(DayWindow)) < Len(l_requests)

\* The last call returned a number of seconds, not None.
Answered == Queried /\ l_result.wait # NoTime

\* What next_available_in would return for the same request_tokens once the
\* wait it returned has been slept.
WaitAfterSleeping ==
    next_available_in(l_state, l_limits, l_now + l_result.wait, l_tokens)

\* C18: when the daily cap is not exhausted, next_available_in
\* returns the larger of the per-minute-request wait and the
\* per-minute-token wait, and once that many seconds have been slept both
\* constraints are satisfied: the limiter asks for no further wait.
C18_MaxClearsBoth ==
    Answered =>
        /\ l_result.wait = Max(l_result.rpm, l_result.tpm)
        /\ WaitAfterSleeping = 0

\* The record_request calls made at most 60 seconds ago, oldest first.
MinuteRequests == SelectSeq(l_requests, LAMBDA t : l_now - t <= MinuteWindow)

\* C19: the per-minute request window with limit L.  With fewer than L
\* requests in the window the wait is 0; with L requests in it the wait is
\* the oldest one's time + 60 - now, never below 0 and above 0 while the
\* oldest is less than 60 seconds old; requests older than 60 seconds do
\* not count, so the wait is 0 again once they have aged out.
C19_PerMinuteRequestWait ==
    (Answered /\ l_limits.requests_per_minute # 0) =>
        /\ Len(MinuteRequests) < l_limits.requests_per_minute =>
              l_result.rpm = 0
        /\ Len(MinuteRequests) = l_limits.requests_per_minute =>
              /\ l_result.rpm = Max(0, MinuteRequests[1] + MinuteWindow - l_now)
              /\ l_now - MinuteRequests[1] < MinuteWindow => l_result.rpm > 0

\* Two requests fill the window of limit 2 and ask for a wait, after an
\* earlier request has aged out of the window.
C19_Witness ==
    /\ Answered
    /\ l_limits.requests_per_minute = 2
    /\ Len(MinuteRequests) = 2
    /\ Len(l_requests) > 2
    /\ l_result.rpm > 0

\* The entries of a window that are at most the window size old.
NotOlderThan(times, window) == SelectSeq(times, LAMBDA t : l_now - t <= window)

NotOlderThanUsage(usage, window) ==
    SelectSeq(usage, LAMBDA u : l_now - u[1] <= window)

\* C20: the windows a next_available_in call evaluates are pruned.  They
\* are the windows the call found, less every entry older than its window
\* size (60 seconds for requests and tokens, 86400 for daily requests), and
\* the daily limit is decided on the pruned daily window.
C20_PrunedBeforeDecision ==
    Queried =>
        /\ l_state.request_times = NotOlderThan(l_had.request_times, MinuteWindow)
        /\ l_state.token_usage = NotOlderThanUsage(l_had.token_usage, MinuteWindow)
        /\ l_state.daily_requests = NotOlderThan(l_had.daily_requests, DayWindow)
        /\ (l_result.wait = NoTime) <=>
              /\ l_limits.requests_per_day # 0
              /\ Len(l_state.daily_requests) >= l_limits.requests_per_day

\* The call found entries older than their window in the daily window and
\* in the token window, and dropped them.
C20_Witness ==
    /\ Queried
    /\ Len(l_state.daily_requests) < Len(l_had.daily_requests)
    /\ Len(l_state.token_usage) < Len(l_had.token_usage)

\* A 429 answered below the ceiling: _call_gemini sleeps and tries again.
RetryStep == gpc = "post" /\ attempt' = attempt + 1

\* The exponential backoff after the k-th consecutive 429: 1s, 2s, 4s.
BackoffSeconds == <<1, 2, 4>>

\* C21: within one provider call, the delay slept before the retry that
\* follows the k-th consecutive 429 (k = 0, 1, 2) is the Retry-After value
\* of the response when the header is present and a number, and the
\* exponential backoff 1s, 2s, 4s otherwise.
C21_RetryAfterPrecedence ==
    [][RetryStep =>
          /\ h_all429
          /\ h_tries = attempt
          /\ clock' - clock =
                IF retry_after \in {HeaderAbsent, HeaderNotANumber}
                THEN BackoffSeconds[attempt + 1]
                ELSE retry_after
          /\ last_delay' = clock' - clock]_vars

\* The server's 7 seconds were slept after the second consecutive 429,
\* where the computed backoff would have been 2 seconds.
C21_Witness ==
    /\ gpc = "post"
    /\ retry_after = 7
    /\ attempt = 2
    /\ h_tries = 2
    /\ last_delay = 7
    /\ h_all429

\* The last 429 of a provider call: _call_gemini raises the rate-limit
\* exceeded condition and annotate handles it.
CeilingStep == gpc = "post" /\ gpc' = "select"

\* C22: when a provider call exceeds the 429 retry ceiling, annotate does
\* not return: it sets the model's cooldown to now + the last retry delay
\* used (now + 60 seconds when there was no delay) and goes on to the next
\* selection cycle.
C22_CooldownAfterCeiling ==
    [][CeilingStep =>
          /\ result' = "pending"
          /\ cooldowns'[model] =
                clock + (IF last_delay = NoTime THEN DefaultCooldown ELSE last_delay)
          /\ \A m \in Models \ {model} : cooldowns'[m] = cooldowns[m]]_vars

\* A cycle selects a model, sleeps its wait and enters _call_gemini.
SelectStep == gpc = "select" /\ gpc' = "post"

\* An HTTP request is sent to model m in this step (at time clock).
SendsTo(m) == Len(h_sent'[m]) > Len(h_sent[m])

\* C23: the wait slept for the selected model is the larger of its quota
\* wait and of what remains of its cooldown, and no request is sent to a
\* model before the cooldown time set by its last 429 ceiling.
C23_CooldownRespected ==
    [][/\ SelectStep =>
            /\ clock' - clock >= WaitInCycle(model', clock)
            /\ clock' >= cooldowns[model']
            /\ \/ clock' - clock = WaitInCycle(model', clock)
               \/ clock' = cooldowns[model']
       /\ \A m \in Models : SendsTo(m) => clock >= cooldowns[m]]_vars

\* The selected model was in cooldown when the cycle began and its quota
\* wait was shorter: the cycle slept until the cooldown time, and the
\* request is about to be sent.
C23_Witness ==
    /\ gpc = "post"
    /\ attempt = 0
    /\ h_tries = 0
    /\ cooldowns[model] > h_cycle.at
    /\ clock = cooldowns[model]
    /\ h_sent[model] # <<>>

\* C25: a network, timeout or non-429 HTTP error raised by a provider call
\* is retried with backoff up to the retry limit before annotate returns
\* the error: the call that ends with such an error has sent
\* max_retries + 1 requests.
C25_TransientErrorRetried ==
    (gpc = "idle" /\ h_outcome = "error") =>
        /\ result = "http error"
        /\ h_tries = max_retries + 1

\* _call_gemini returns a response and annotate reconciles the usage.
ResponseStep == gpc = "post" /\ h_outcome' = "response"

\* The model's tokens-per-minute window.
TokenWindow(m) == rate_limiters[m].token_usage

ParseErrors ==
    {"Failed to parse LLM response as JSON",
     "Invalid response: key_assertions must be a list"}

\* C24: a malformed response (text that is not JSON, or JSON of the wrong
\* shape) fails the annotate call at once: no request is sent after a
\* response that failed to parse or to validate, and the annotation the
\* call returns carries that error.
C24_MalformedFailsImmediately ==
    /\ p_sent_after_rejection = 0
    /\ (p_pc = "idle" /\ p_rejected > 0) => p_annotation.error \in ParseErrors

\* The last response parsed to an annotation without error.
ErrorFree ==
    /\ p_outcome.raised = ""
    /\ p_outcome.response.kind = "object"
    /\ p_outcome.response.key_assertions \in {"list", "missing"}

\* One iteration of OllamaProvider.annotate's loop.
OllamaStep == p_provider = "ollama" /\ p_requests' = p_requests + 1

AssertionsNotAList ==
    /\ p_outcome.raised = ""
    /\ p_outcome.response.kind = "object"
    /\ p_outcome.response.key_assertions \notin {"list", "missing"}

\* C27: a response whose key_assertions is not a list is rejected with the
\* error 'Invalid response: key_assertions must be a list', whatever its
\* scenario and why_needed hold, and is never turned into an annotation:
\* the call that ends on such a response returns that error (OllamaProvider
\* after its retries, as the last error), and no returned annotation holds
\* key_assertions that are not a list.
C27_KeyAssertionsMustBeList ==
    /\ (p_pc = "idle" /\ AssertionsNotAList) =>
          p_annotation.error \in
              {"Invalid response: key_assertions must be a list",
               "Failed after 3 retries. Last error: "
                   \o "Invalid response: key_assertions must be a list"}
    /\ p_annotation.key_assertions = "list"

(***************************************************************************)
(* Properties of the pacing and the order of annotate_tests' provider      *)
(* calls, checked under SpecPacing.                                        *)
(***************************************************************************)

\* The loop handles its next test and finds its annotation in the cache.
CacheHitStep ==
    /\ pc = "loop"
    /\ index' = index + 1
    /\ cache_get(cache, wall, limited[index + 1],
                 hash_source(source[limited[index + 1]])) # None

\* C28: provider calls are issued in the order the eligible tests are
\* presented in (the tests called are tests of limited_tests, each called
\* once, in ascending input position); a cache hit attaches the cached
\* annotation without a provider call, without a wait and without touching
\* the pacing timer last_request_time, so that it takes nothing from the
\* request budget of the live calls that follow.
C28_OrderAndCacheHits ==
    /\ [](/\ \A i \in 1..Len(calls) : calls[i] \in SeqToSet(limited)
          /\ \A i, j \in 1..Len(calls) : i < j => calls[i] < calls[j]
          /\ Len(starts) = Len(calls))
    /\ [][CacheHitStep =>
             /\ calls' = calls
             /\ starts' = starts
             /\ wall' = wall
             /\ last_request_time' = last_request_time
             /\ cache' = cache
             /\ llm_annotation'[limited[index + 1]].made < wall]_vars

\* A second run served the first test from the cache and then called the
\* provider for a later test without any wait: the pacing timer was still
\* unset after the hit.
C28_Witness ==
    /\ pc = "done"
    /\ run = 2
    /\ Len(limited) = 3
    /\ Len(calls) = 1
    /\ limited[1] \in cacheReads \ cacheWrites
    /\ calls[1] = limited[3]
    /\ llm_annotation[limited[1]].made < starts[1]
    /\ last_request_time = starts[1]
    /\ llm_annotation[calls[1]].made = starts[1] + 20

\* C29: within one run the start times of two consecutive provider.annotate
\* calls are at least 60 / requests_per_minute seconds apart.
C29_GlobalPacing ==
    \A i \in 2..Len(starts) :
        (starts[i] - starts[i - 1]) * llm_requests_per_minute >= 60

\* Under 2 requests per minute a call that took 20 seconds was followed by
\* a sleep of 10: the next call started 30 seconds after it, and a call
\* that took no time was followed by a sleep of 30.
C29_Witness ==
    /\ pc = "done"
    /\ llm_requests_per_minute = 2
    /\ Len(starts) = 3
    /\ llm_annotation[calls[1]].made = starts[1] + 20
    /\ starts[2] = starts[1] + 30
    /\ llm_annotation[calls[2]].made = starts[2]
    /\ starts[3] = starts[2] + 30

(***************************************************************************)
(* Properties of the model list and the per-model limits, checked under    *)
(* SpecModels.                                                             *)
(***************************************************************************)

\* A step is one call of _ensure_models_and_limits.
EnsureStep == m_calls' = m_calls + 1

\* The model list has been fetched before, and the call now being made
\* comes at least 6 hours after the last fetch.
RefreshDue ==
    /\ h_fetches # <<>>
    /\ m_now' - h_fetches[Len(h_fetches)] >= MODEL_LIST_REFRESH_INTERVAL

\* C31: the model list is fetched by the first call of
\* _ensure_models_and_limits, and by a later call exactly when at least 6
\* hours have passed since the last fetch; a call less than 6 hours after
\* the last fetch fetches nothing.
C31_ModelListRefresh ==
    [][EnsureStep =>
          IF h_fetches = <<>> \/ RefreshDue
          THEN h_fetches' = Append(h_fetches, m_now')
          ELSE h_fetches' = h_fetches]_vars

\* Three calls: the first fetches, the second comes within 6 hours and
\* fetches nothing, the third comes exactly 6 hours after the first fetch
\* and fetches again.
C31_Witness ==
    /\ m_calls = 3
    /\ Len(h_fetches) = 2
    /\ h_fetches[2] - h_fetches[1] = MODEL_LIST_REFRESH_INTERVAL


\* The elements of a list, each once, in the order of their first occurrence.
RECURSIVE Once(_)
Once(seq) ==
    IF seq = <<>> THEN <<>>
    ELSE LET init == Once(SubSeq(seq, 1, Len(seq) - 1))
             last == seq[Len(seq)]
         IN  IF last \in SeqToSet(init) THEN init ELSE Append(init, last)

\* The configured models first, in configured order, then the other
\* discovered models in discovery order.
PreferredThenDiscovered(cfg, discovered) ==
    LET preferred == Once(parse_preferred_models(cfg))
        Other(n) == n \notin SeqToSet(preferred)
    IN  preferred \o SelectSeq(discovered, Other)

\* C32: once fetched, the candidate model list is the explicitly configured
\* models in configured order followed by all other available models in
\* discovery order, each model once; with model = "all" or no model
\* configured it is the discovery order.
C32_PreferredFirst ==
    m_models # NoModels =>
        m_models = PreferredThenDiscovered(config_model, h_discovered)


\* Every model of the list has limits, and their requests_per_minute is set
\* and at most the configured llm_requests_per_minute.
LimitsCapped ==
    /\ SeqToSet(m_models) \subseteq DOMAIN m_rate_limits
    /\ \A n \in DOMAIN m_rate_limits :
          /\ m_rate_limits[n].requests_per_minute # NoLimit
          /\ m_rate_limits[n].requests_per_minute <= llm_requests_per_minute

ParametrizedScenarioRan ==
    /\ pc = "done"
    /\ run = 1
    /\ cacheAtStart = {}
    /\ limited = <<1, 2, 3>>
    /\ source[1] = source[2]
    /\ source[3] # source[1]

\* C33: in a run over 3 tests on an empty cache where two parametrized tests
\* share identical source and the third is unique, the provider gets one
\* live call for the shared source, the other sharing test is a cache hit,
\* and the unique test gets its own live call: 2 live calls in all.
C33_SharedSourceOneCall ==
    ParametrizedScenarioRan =>
        /\ Len(calls) = 2
        /\ calls = <<1, 3>>
        /\ 2 \in cacheReads \ cacheWrites
        /\ llm_annotation[2] # None


(***************************************************************************)
(* Properties of the selection cycle, checked under SpecGemini.            *)
(***************************************************************************)

\* The list a is what is left of the list b after dropping entries from its
\* front: nothing was added.
IsSuffix(a, b) ==
    \E k \in 0..Len(b) : a = SubSeq(b, k + 1, Len(b))

\* The per-minute and per-day request windows of model m.
RequestWindows(m) ==
    <<rate_limiters[m].request_times, rate_limiters[m].daily_requests>>

\* No request is recorded for model m in this step (entries may age out).
NothingRecorded(m) ==
    \A w \in 1..2 : IsSuffix(RequestWindows(m)'[w], RequestWindows(m)[w])

\* Exactly one request is recorded for model m in this step, stamped with
\* the time the step ends at.
OneRecorded(m) ==
    \A w \in 1..2 :
        LET window == RequestWindows(m)'[w]
        IN  /\ window # <<>>
            /\ window[Len(window)] = clock'
            /\ IsSuffix(SubSeq(window, 1, Len(window) - 1), RequestWindows(m)[w])

\* C34: a selection cycle that picks a model sleeps the selected wait, then
\* records exactly one request in that model's per-minute and per-day
\* windows, then sends the provider call, and the token usage is recorded
\* after that; nothing else records a request, so that each cycle has one,
\* whether its call ends with a response, at the 429 ceiling or in an error.
C34_CycleOrder ==
    [][/\ SelectStep =>
            /\ \A m \in Models :
                  IF m = model'
                  THEN /\ clock' = clock + CandidateWait(m, clock)
                       /\ OneRecorded(m)
                  ELSE NothingRecorded(m)
            /\ h_sent' = h_sent
            /\ \A m \in Models : Len(TokenWindow(m)') <= Len(TokenWindow(m))
       /\ gpc = "post" =>
            /\ SendsTo(model)
            /\ RequestWindows(model)[1] # <<>>
            /\ RequestWindows(model)[1][Len(RequestWindows(model)[1])] <= clock
            /\ \A m \in Models : NothingRecorded(m)
            /\ \A m \in Models :
                  Len(TokenWindow(m)') > Len(TokenWindow(m)) =>
                      /\ m = model
                      /\ ResponseStep
                      /\ TokenWindow(m)'[Len(TokenWindow(m)')][1] = clock
       /\ ~SelectStep /\ gpc # "post" =>
            \A m \in Models : NothingRecorded(m) /\ ~SendsTo(m)]_vars

\* One annotate call ran two cycles: the call of the first ended at the 429
\* ceiling, the call of the second with a response that reports its usage.
\* Each cycle recorded one request: two are recorded, five were sent.
C34_Witness ==
    /\ gcalls = 1
    /\ gpc = "idle"
    /\ h_provider_calls = 2
    /\ h_outcome = "response"
    /\ h_usage > 0
    /\ h_http = max_retries + 2
    /\ \E a, b \in Models :
          /\ a # b
          /\ Len(rate_limiters[a].daily_requests) = 1
          /\ Len(rate_limiters[b].daily_requests) = 1
          /\ Len(rate_limiters[b].request_times) = 1
          /\ TokenWindow(b) # <<>>
          /\ TokenWindow(b)[1][1] >= rate_limiters[b].request_times[1]


\* Model m is not exhausted as the cycle beginning now sees it: it is not
\* skipped as marked, and its limiter has daily budget left.
NonExhausted(m) ==
    /\ ~(model_exhausted_at[m] # NoTime
            /\ clock - model_exhausted_at[m] < DAILY_LIMIT_WINDOW)
    /\ WaitInCycle(m, clock) # NoTime

\* The effective wait of model m in the cycle beginning now: the larger of
\* its quota wait and of what is left of its cooldown.
EffectiveWait(m) ==
    LET cooldown_wait == IF cooldowns[m] > clock THEN cooldowns[m] - clock ELSE 0
        quota_wait == WaitInCycle(m, clock)
    IN  IF quota_wait >= cooldown_wait THEN quota_wait ELSE cooldown_wait

\* C35: the model a selection cycle calls is a non-exhausted model whose
\* effective wait (the max of quota wait and cooldown wait) is the least
\* among all non-exhausted models, and of several with the least wait it
\* is the one earliest in the ordered model list; the cycle sleeps that wait.
C35_MinimumWaitSelected ==
    [][SelectStep =>
          \A m \in Models :
              m = model' =>
                  /\ NonExhausted(m)
                  /\ clock' - clock = EffectiveWait(m)
                  /\ \A o \in Models :
                        NonExhausted(o) =>
                            \/ EffectiveWait(m) < EffectiveWait(o)
                            \/ EffectiveWait(m) = EffectiveWait(o) /\ m <= o]_vars

\* Both models were candidates and the second of the list was selected: the
\* first had the longer wait.  The request is about to be sent.
C35_Witness ==
    /\ gpc = "post"
    /\ h_tries = 0
    /\ model = 2
    /\ h_cycle.candidates = 2
    /\ model_exhausted_at[1] = NoTime


\* The requests recorded for model m with a stamp in the window (t - 60, t].
RecordedInMinute(m, t) ==
    {i \in 1..Len(rate_limiters[m].request_times) :
        /\ rate_limiters[m].request_times[i] > t - MinuteWindow
        /\ rate_limiters[m].request_times[i] <= t}

\* C36: for every model, the number of requests recorded for it with stamps
\* in any half-open 60-second window (t - 60, t] never exceeds the model's
\* requests_per_minute.  The windows that end at a recorded stamp are the
\* fullest ones, and when a stamp is recorded every request of the 60
\* seconds before it is still in _request_times.
C36_RecordedWithinRate ==
    \A m \in Models :
        \A i \in 1..Len(rate_limiters[m].request_times) :
            Cardinality(RecordedInMinute(m, rate_limiters[m].request_times[i]))
                <= rate_limits[m].requests_per_minute


(***************************************************************************)
(* Token admission of _GeminiRateLimiter, checked under SpecLimiter.       *)
(***************************************************************************)

\* The tokens recorded in the 60 seconds before time t: the usage entries
\* stamped later than t - 60.
TokensInLastMinute(t) ==
    SumTokens(SelectSeq(l_state.token_usage, LAMBDA e : e[1] > t - MinuteWindow))

\* C37: when next_available_in computes the tokens-per-minute wait w for a
\* request of n tokens, 0 < n <= tokens_per_minute, then at time now + w,
\* with no records in between, the tokens recorded in the last 60 seconds
\* plus n do not exceed tokens_per_minute; and a request of n >=
\* tokens_per_minute tokens gets the wait 0 when the token window is empty.
C37_TokenAdmission ==
    (Answered /\ l_limits.tokens_per_minute # 0) =>
        /\ (0 < l_tokens /\ l_tokens <= l_limits.tokens_per_minute) =>
              TokensInLastMinute(l_now + l_result.tpm) + l_tokens
                  <= l_limits.tokens_per_minute
        /\ (l_tokens >= l_limits.tokens_per_minute /\ l_state.token_usage = <<>>) =>
              l_result.tpm = 0

\* The window holds three usages and the request fits only once the second
\* of them has aged out: the wait runs to that moment, past the expiry of
\* the oldest.
C37_Witness ==
    /\ Answered
    /\ l_tokens = 1
    /\ Len(l_state.token_usage) = 3
    /\ l_result.tpm = l_state.token_usage[2][1] + MinuteWindow - l_now
    /\ l_result.tpm > l_state.token_usage[1][1] + MinuteWindow - l_now
    /\ l_result.tpm > 0


\* The selection cycle beginning now skips model m as daily-exhausted: the
\* model is marked and the mark is less than 24 hours old, or its limiter
\* returns None.
SkippedAsExhausted(m) ==
    \/ MarkedWithinDay(m)
    \/ /\ model_exhausted_at[m] = NoTime
       /\ WaitInCycle(m, clock) = NoTime

\* C39: a selection cycle skips a model as daily-exhausted only while the
\* model's daily window still holds at least requests_per_day requests of
\* the last 24 hours; once enough of them are older than 24 hours for the
\* count to be below the limit, the model is a candidate again.
C39_SkippedOnlyWhileWindowFull ==
    [][SelectionStep =>
          \A m \in Models :
              SkippedAsExhausted(m) =>
                  /\ rate_limits[m].requests_per_day # 0
                  /\ DayCount(m) >= rate_limits[m].requests_per_day]_vars

=============================================================================
